---- MODULE Spec2Model ----
(***************************************************************************)
(* A model of the transcript normaliser (TingwuClient) and of the          *)
(* structured-output extractor (QwenClient) of finance_bot.                *)
(*                                                                         *)
(* Text is modelled as a sequence of one-character strings, so that        *)
(* strip(), join(), slicing and len() are computed as Python computes      *)
(* them.  Python's None is the value None below; a dict is a record (a     *)
(* function whose domain is the set of keys that are present).             *)
(*                                                                         *)
(* The module holds several specifications, one per component:             *)
(*   SpecMerge    TingwuClient._merge_sentences_by_speaker                 *)
(*   SpecTingwu   TingwuClient._parse_json_content                         *)
(*   SpecClean    QwenClient._clean_and_parse_json                         *)
(*   SpecAnalyze  QwenClient.analyze_content                               *)
(* The variables of the components a specification does not run keep       *)
(* their idle values.                                                      *)
(***************************************************************************)
EXTENDS Integers, Sequences, FiniteSets, TLC

VARIABLES
    \* _merge_sentences_by_speaker
    sentences,      \* the argument: a list of sentence units
    segments,       \* the returned list of segments
    merged,         \* history: for each returned segment, the indices of the units whose text it holds
    mpc,            \* "call" before the call, "done" after it returned
    \* _parse_json_content
    data,           \* the argument: the provider payload
    parsed,         \* the returned dict
    paths,          \* history: the extraction strategies that ran, in order
    tpc,            \* "call" / "done"
    \* _clean_and_parse_json
    raw,            \* the argument: the model's text
    content,        \* the local content after fence stripping
    extracted,      \* the local extracted
    tried,          \* history: the stages that ran, in order
    cresult,        \* the returned value
    cfrom,          \* history: "parse" when a stage's value was returned, "envelope" for the error envelope
    cpc,            \* the position in the function
    \* analyze_content
    transcript_text,
    video_title,
    max_full_text_chars,
    requests,       \* history: the generate_json requests made, in order
    outcomes,       \* history: what each request gave (a value or an exception)
    aresult,        \* the returned value
    apc,            \* the position in the function
    \* process_transcript
    raw_result,     \* the argument: the provider payload
    processed,      \* the returned dict
    ppc,            \* "call" / "done"
    \* generate_json
    replies,        \* history: what the transport gave on each generation request, in order
    gresult,        \* what the call gave: a value returned or an exception raised
    gpc,            \* "call" before a request, "done" after the call ended
    \* two invocations of the core transformations on the same instances
    calls,          \* for each invocation, the method called and its arguments
    frames,         \* the locals of the invocations, one cell per call frame
    rpc,            \* for each invocation, its position in its method
    outs,           \* for each invocation, the value returned
    loglines,       \* the number of lines written to the instances' shared logger
    \* ConfigValidator.validate_all
    config,         \* the argument: the configuration dict
    verdict,        \* what the call gave: the pair returned or an exception raised
    vpc,            \* "call" / "done"
    \* ContentIntelligencePipeline.run_once and _process_video
    history_db,     \* the bvids with status 'processed' in video_history
    all_videos,     \* what the last get_video_list gave: a listing or an exception
    new_videos,     \* the videos of the last get_new_videos still to process
    video_info,     \* the bvid of the video in _process_video
    presult,        \* the dict result of _process_video
    spc,            \* the position in run_once and _process_video
    failed_at,      \* history: the position at which the last _process_video failed
    failed,         \* history: the videos whose last processing failed
    found_again,    \* history: the videos get_new_videos returned after a failure
    checks          \* history: the number of get_new_videos calls made

mergeVars   == <<sentences, segments, merged, mpc>>
tingwuVars  == <<data, parsed, paths, tpc>>
cleanVars   == <<raw, content, extracted, tried, cresult, cfrom, cpc>>
analyzeVars == <<transcript_text, video_title, max_full_text_chars, requests, outcomes, aresult, apc>>
processVars == <<raw_result, processed, ppc>>
genVars     == <<replies, gresult, gpc>>
coreVars    == <<mergeVars, tingwuVars, cleanVars, analyzeVars, processVars>>
runVars     == <<calls, frames, rpc, outs, loglines>>
validVars   == <<config, verdict, vpc>>
pipeVars    ==
    <<history_db, all_videos, new_videos, video_info, presult, spc, failed_at, failed,
      found_again, checks>>
otherVars   == <<genVars, runVars, validVars, pipeVars>>
vars        == <<coreVars, otherVars>>

----------------------------------------------------------------------------
(* Python values *)

None == "<None>"

\* dict.get(key, default)
Get(d, key, default) == IF key \in DOMAIN d THEN d[key] ELSE default

\* Python truthiness of a str-or-None
Truthy(x) == x # None /\ x # ""

\* the characters str.strip() removes, \s matches and JSON takes as whitespace
Whitespace == {" ", "\n", "\t", "\r"}

RECURSIVE LStrip(_)
LStrip(s) ==
    IF s # <<>> /\ Head(s) \in Whitespace THEN LStrip(Tail(s)) ELSE s

RECURSIVE RStrip(_)
RStrip(s) ==
    IF s # <<>> /\ s[Len(s)] \in Whitespace THEN RStrip(SubSeq(s, 1, Len(s) - 1)) ELSE s

\* str.strip()
Strip(s) == RStrip(LStrip(s))

\* sep.join(parts)
RECURSIVE Join(_, _)
Join(sep, parts) ==
    IF parts = <<>> THEN <<>>
    ELSE IF Len(parts) = 1 THEN parts[1]
    ELSE parts[1] \o sep \o Join(sep, Tail(parts))

\* all sequences over S of length at most n
SeqUpTo(S, n) == UNION {[1..k -> S] : k \in 0..n}

----------------------------------------------------------------------------
(* TingwuClient._merge_sentences_by_speaker *)

MaxUnits == 3

\* the sentence units a call is tried on: texts with and without surrounding
\* whitespace, a whitespace-only text, an empty speaker id, and times with
\* BeginTime <= EndTime in any order between units
Texts    == {<<" ">>, <<"A">>, <<"B", " ">>, <<"C">>}
Speakers == {"S1", "S2", ""}
Times    == {0, 1}
Units ==
    {[Text |-> t, SpeakerId |-> s, BeginTime |-> b, EndTime |-> e] :
        t \in Texts, s \in Speakers, b \in Times, e \in Times}
WellTimedUnits == {u \in Units : u.BeginTime <= u.EndTime}

\* the locals before the loop (lines 250-253); idx is the history of unit indices in current_texts
MergeStart ==
    [segments |-> <<>>, current_speaker |-> None, current_texts |-> <<>>,
     current_start |-> 0, merged |-> <<>>, idx |-> <<>>]

\* the segment appended when the speaker changes (lines 265-270)
ChangeSegment(st, sent) ==
    [text |-> Join(<<>>, st.current_texts),
     speaker_id |-> st.current_speaker,
     start_time |-> st.current_start,
     end_time |-> Get(sent, "BeginTime", 0)]

\* lines 263-272: the speaker changed, close the current paragraph
OnSpeakerChange(st, sent) ==
    [st EXCEPT
        !.segments = IF st.current_texts # <<>> THEN Append(@, ChangeSegment(st, sent)) ELSE @,
        !.merged = IF st.current_texts # <<>> THEN Append(@, st.idx) ELSE @,
        !.current_texts = <<>>,
        !.idx = <<>>,
        !.current_start = Get(sent, "BeginTime", 0)]

\* a plausible slip: the blank unit is skipped only after the speaker check
MergeStep_BlankChanges(st, sent, i) ==
    LET speaker_id == Get(sent, "SpeakerId", "1")
        text == Strip(Get(sent, "Text", <<>>))
        st1 == IF Truthy(st.current_speaker) /\ speaker_id # st.current_speaker
               THEN OnSpeakerChange(st, sent)
               ELSE st
        st2 == IF ~Truthy(st1.current_speaker)
               THEN [st1 EXCEPT !.current_speaker = speaker_id,
                                !.current_start = Get(sent, "BeginTime", 0)]
               ELSE st1
    IN  IF text = <<>> THEN st2
        ELSE [st2 EXCEPT !.current_texts = Append(@, text), !.idx = Append(@, i)]

\* one iteration of the loop (lines 255-278) on unit number i
MergeStep(st, sent, i) ==
    LET speaker_id == Get(sent, "SpeakerId", "1")
        text == Strip(Get(sent, "Text", <<>>))
        st1 == IF Truthy(st.current_speaker) /\ speaker_id # st.current_speaker
               THEN OnSpeakerChange(st, sent)
               ELSE st
        st2 == IF ~Truthy(st1.current_speaker)
               THEN [st1 EXCEPT !.current_speaker = speaker_id,
                                !.current_start = Get(sent, "BeginTime", 0)]
               ELSE st1
    IN  IF text = <<>> THEN st
        ELSE [st2 EXCEPT !.current_texts = Append(@, text), !.idx = Append(@, i)]

\* the loop over the first n units
RECURSIVE MergeLoop(_, _)
MergeLoop(sents, n) ==
    IF n = 0 THEN MergeStart
    ELSE MergeStep(MergeLoop(sents, n - 1), sents[n], n)

\* a plausible slip: the last paragraph is never saved
MergeFlush_NoFlush(st, sents) == st

\* lines 280-287: the last paragraph
MergeFlush(st, sents) ==
    IF st.current_texts # <<>>
    THEN [st EXCEPT
            !.segments = Append(@,
                [text |-> Join(<<>>, st.current_texts),
                 speaker_id |-> st.current_speaker,
                 start_time |-> st.current_start,
                 end_time |-> IF sents # <<>> THEN Get(sents[Len(sents)], "EndTime", 0) ELSE 0]),
            !.merged = Append(@, st.idx)]
    ELSE st

\* the function: the final locals, of which .segments is returned
MergeRun(sents) ==
    IF sents = <<>> THEN MergeStart
    ELSE MergeFlush(MergeLoop(sents, Len(sents)), sents)

_merge_sentences_by_speaker(sents) == MergeRun(sents).segments

----------------------------------------------------------------------------
(* TingwuClient._parse_json_content *)

\* two of the full-width punctuation marks of the class [，。！？、；：]
FwComma == "<fw,>"
FwStop  == "<fw.>"
Punctuation == {FwComma, FwStop}

\* re.sub(r'\s+', '', merged)
RemoveWhitespace(s) == SelectSeq(s, LAMBDA c : c \notin Whitespace)

\* re.sub(r'([，。！？、；：])\1+', r'\1', merged): a mark repeated is kept once
RECURSIVE CollapsePunctuation(_)
CollapsePunctuation(s) ==
    IF Len(s) < 2 THEN s
    ELSE LET front == CollapsePunctuation(SubSeq(s, 1, Len(s) - 1))
             c == s[Len(s)]
         IN  IF c \in Punctuation /\ s[Len(s) - 1] = c THEN front ELSE Append(front, c)

\* [f(x) for x in xs if keep(x)]
MapFilter(xs, f(_), keep(_)) ==
    LET Upto[n \in 0..Len(xs)] ==
            IF n = 0 THEN <<>>
            ELSE Upto[n - 1] \o (IF keep(xs[n]) THEN <<f(xs[n])>> ELSE <<>>)
    IN  Upto[Len(xs)]

\* lines 291-310
_smart_merge_words(words) ==
    IF words = <<>> THEN <<>>
    ELSE LET result == MapFilter(words,
                           LAMBDA w : Get(w, "Text", <<>>),
                           LAMBDA w : Get(w, "Text", <<>>) # <<>>)
         IN  CollapsePunctuation(RemoveWhitespace(Join(<<>>, result)))

\* lines 312-328
_merge_fragmented_texts(texts) ==
    IF texts = <<>> THEN <<>>
    ELSE LET kept == MapFilter(texts, LAMBDA t : Strip(t), LAMBDA t : Strip(t) # <<>>)
         IN  CollapsePunctuation(RemoveWhitespace(Join(<<>>, kept)))

\* "\n\n".join([s["text"] for s in segments])
FullTextOf(segs) == Join(<<"\n", "\n">>, [k \in DOMAIN segs |-> segs[k].text])

\* lines 330-340 on the shapes of payload modelled here: the string under
\* "Text" of a dict first, then the values of the dict in the order of its keys
TextUnder(d) == IF "Text" \in DOMAIN d THEN <<d["Text"]>> ELSE <<>>

FindInList(xs, find(_)) ==
    LET Upto[n \in 0..Len(xs)] ==
            IF n = 0 THEN <<>> ELSE Upto[n - 1] \o find(xs[n])
    IN  Upto[Len(xs)]

FindInWord(w) == TextUnder(w)
FindInParagraph(p) ==
    TextUnder(p) \o (IF "Words" \in DOMAIN p THEN FindInList(p["Words"], FindInWord) ELSE <<>>)
FindInSentence(u) == TextUnder(u)
FindInTranscription(t) ==
    TextUnder(t)
    \o (IF "Sentences" \in DOMAIN t THEN FindInList(t["Sentences"], FindInSentence) ELSE <<>>)
    \o (IF "Paragraphs" \in DOMAIN t THEN FindInList(t["Paragraphs"], FindInParagraph) ELSE <<>>)
_recursive_find_text(d) ==
    IF "Transcription" \in DOMAIN d
    THEN TextUnder(d) \o FindInTranscription(d["Transcription"])
    ELSE FindInTranscription(d)

\* lines 200-205
SentencePath(sents) ==
    LET segs == _merge_sentences_by_speaker(sents)
    IN  [result |-> [type |-> "sentences", segments |-> segs, full_text |-> FullTextOf(segs)],
         paths |-> <<"sentences">>]

\* lines 217-222: the segment of a paragraph that has words
ParagraphSegment(para) ==
    LET words == Get(para, "Words", <<>>)
    IN  [text |-> _smart_merge_words(words),
         speaker_id |-> Get(para, "SpeakerId", "1"),
         start_time |-> Get(words[1], "Start", 0),
         end_time |-> Get(words[Len(words)], "End", 0)]

\* lines 210-228
ParagraphPath(paragraphs) ==
    LET segs == MapFilter(paragraphs, ParagraphSegment,
                          LAMBDA para : Get(para, "Words", <<>>) # <<>>)
    IN  [result |-> [type |-> "paragraphs", segments |-> segs, full_text |-> FullTextOf(segs)],
         paths |-> <<"paragraphs">>]

\* lines 231-243
RecursivePath(d) ==
    LET all_texts == _recursive_find_text(d)
        merged_text == _merge_fragmented_texts(all_texts)
    IN  IF all_texts # <<>>
        THEN [result |-> [type |-> "raw_lines",
                          segments |-> <<[text |-> merged_text, speaker_id |-> "1",
                                          start_time |-> 0, end_time |-> 0]>>,
                          full_text |-> merged_text],
              paths |-> <<"recursive">>]
        ELSE [result |-> [type |-> "empty", full_text |-> <<>>, segments |-> <<>>],
              paths |-> <<"recursive">>]

\* a plausible slip: the paragraph path is tried before the sentence path
ParseRun_ParagraphsFirst(d) ==
    LET transcription == Get(d, "Transcription", d)
        sents == Get(transcription, "Sentences", <<>>)
        paragraphs == Get(transcription, "Paragraphs", <<>>)
    IN  IF paragraphs # <<>> THEN ParagraphPath(paragraphs)
        ELSE IF sents # <<>> THEN SentencePath(sents)
        ELSE RecursivePath(d)

\* lines 189-243: the returned dict, with the history of the strategies run
ParseRun(d) ==
    LET transcription == Get(d, "Transcription", d)
        sents == Get(transcription, "Sentences", <<>>)
        paragraphs == Get(transcription, "Paragraphs", <<>>)
    IN  IF sents # <<>> THEN SentencePath(sents)
        ELSE IF paragraphs # <<>> THEN ParagraphPath(paragraphs)
        ELSE RecursivePath(d)

_parse_json_content(d) == ParseRun(d).result

MaxPayloadUnits == 2

\* the payloads a call is tried on
PayloadUnits ==
    {u \in WellTimedUnits : u.Text \in {<<" ">>, <<"A">>} /\ u.SpeakerId \in {"S1", "S2"}}
WordSet ==
    {[Text |-> t, Start |-> 0, End |-> 1] : t \in {<<>>, <<"A", " ">>, <<FwComma>>}}
ParagraphSet ==
    {[Words |-> ws] : ws \in SeqUpTo(WordSet, 2)}
    \cup {[Words |-> <<w>>, SpeakerId |-> "S2"] : w \in WordSet}
    \cup {[SpeakerId |-> "S2"]}
ParagraphLists ==
    {<<>>} \cup {<<p>> : p \in ParagraphSet}
    \cup {<<[Words |-> <<v>>], [Words |-> <<w>>]>> : v, w \in WordSet}
FlatTexts == {<<" ">>, <<"A", " ", FwStop, FwStop>>}

\* a key that may be absent: <<>> when absent, <<v>> when present with value v
Optional(S) == {<<>>} \cup {<<v>> : v \in S}
KeyIf(key, opt) == IF opt = <<>> THEN {} ELSE {key}

\* the dict with the keys among Sentences, Paragraphs and Text that are present
DictOf(ss, ps, tx) ==
    [k \in KeyIf("Sentences", ss) \cup KeyIf("Paragraphs", ps) \cup KeyIf("Text", tx) |->
        CASE k = "Sentences" -> ss[1] [] k = "Paragraphs" -> ps[1] [] k = "Text" -> tx[1]]

Transcriptions ==
    {DictOf(ss, ps, tx) :
        ss \in Optional(SeqUpTo(PayloadUnits, MaxPayloadUnits)),
        ps \in Optional(ParagraphLists),
        tx \in Optional(FlatTexts)}
Payloads == Transcriptions \cup {[Transcription |-> t] : t \in Transcriptions}

----------------------------------------------------------------------------
(* json.loads, as QwenClient._clean_and_parse_json uses it.                 *)
(* A value is [kind, val]: an object holds a function from its keys (texts) *)
(* to values, an array a sequence of values, a string its text, a number    *)
(* its value.  The texts tried hold no sign, fraction or exponent.          *)

\* a control character of the range 0x00-0x08
Ctl == "<ctl>"

\* the characters a JSON string may not hold unescaped (0x00-0x1f)
ControlChars == {Ctl, "\n", "\t", "\r"}
Digits == {"0", "1", "2", "3", "4", "5", "6", "7", "8", "9"}
DigitValue(c) ==
    CASE c = "0" -> 0 [] c = "1" -> 1 [] c = "2" -> 2 [] c = "3" -> 3 [] c = "4" -> 4
      [] c = "5" -> 5 [] c = "6" -> 6 [] c = "7" -> 7 [] c = "8" -> 8 [] c = "9" -> 9

\* the escapes of json.decoder.BACKSLASH
Escapes == {"\"", "\\", "/", "b", "f", "n", "r", "t"}
Unescape(c) ==
    CASE c = "n" -> "\n" [] c = "t" -> "\t" [] c = "r" -> "\r"
      [] c = "b" -> "<bs>" [] c = "f" -> "\f" [] OTHER -> c

Ok(v, next) == [ok |-> TRUE, val |-> v, pos |-> next]
Fail(message) == [ok |-> FALSE, msg |-> message]

\* s[i:i+1]: the character at i, "" past the end
CharAt(s, i) == IF i \in 1..Len(s) THEN s[i] ELSE ""

\* WHITESPACE.match(s, i).end()
RECURSIVE SkipWs(_, _)
SkipWs(s, i) == IF CharAt(s, i) \in Whitespace THEN SkipWs(s, i + 1) ELSE i

\* py_scanstring from the character after the opening quote, strict
RECURSIVE ScanString(_, _, _)
ScanString(s, i, acc) ==
    LET c == CharAt(s, i)
    IN  IF c = "" THEN Fail("Unterminated string starting at")
        ELSE IF c = "\"" THEN Ok(acc, i + 1)
        ELSE IF c = "\\"
             THEN IF CharAt(s, i + 1) = "" THEN Fail("Unterminated string starting at")
                  ELSE IF CharAt(s, i + 1) \in Escapes
                       THEN ScanString(s, i + 2, Append(acc, Unescape(s[i + 1])))
                       ELSE Fail("Invalid \\escape")
        ELSE IF c \in ControlChars THEN Fail("Invalid control character at")
        ELSE ScanString(s, i + 1, Append(acc, c))

\* NUMBER_RE: 0, or a digit from 1 to 9 and the digits that follow it
RECURSIVE ScanDigits(_, _, _)
ScanDigits(s, i, n) ==
    IF CharAt(s, i) \in Digits THEN ScanDigits(s, i + 1, 10 * n + DigitValue(s[i]))
    ELSE Ok([kind |-> "number", val |-> n], i)

Literal(s, i, word) ==
    i + Len(word) - 1 <= Len(s) /\ SubSeq(s, i, i + Len(word) - 1) = word

RECURSIVE ScanOnce(_, _)
RECURSIVE ArrayLoop(_, _, _)
RECURSIVE ObjectLoop(_, _, _)

\* JSONArray, from the character after "["
ParseArray(s, i) ==
    LET first == SkipWs(s, i)
    IN  IF CharAt(s, first) = "]" THEN Ok([kind |-> "array", val |-> <<>>], first + 1)
        ELSE ArrayLoop(s, first, <<>>)

ArrayLoop(s, i, acc) ==
    LET v == ScanOnce(s, i)
        after == SkipWs(s, v.pos)
    IN  IF ~v.ok THEN v
        ELSE IF CharAt(s, after) = "]"
             THEN Ok([kind |-> "array", val |-> Append(acc, v.val)], after + 1)
        ELSE IF CharAt(s, after) # "," THEN Fail("Expecting ',' delimiter")
        ELSE ArrayLoop(s, SkipWs(s, after + 1), Append(acc, v.val))

\* JSONObject, from the character after "{"
ParseObject(s, i) ==
    LET first == SkipWs(s, i)
    IN  IF CharAt(s, first) = "}" THEN Ok([kind |-> "object", val |-> <<>>], first + 1)
        ELSE IF CharAt(s, first) # "\""
             THEN Fail("Expecting property name enclosed in double quotes")
        ELSE ObjectLoop(s, first + 1, <<>>)

\* one "key": value pair, from the character after the key's opening quote
ObjectLoop(s, i, acc) ==
    LET key == ScanString(s, i, <<>>)
        colon == SkipWs(s, key.pos)
        v == ScanOnce(s, SkipWs(s, colon + 1))
        after == SkipWs(s, v.pos)
        pairs == [k \in DOMAIN acc \cup {key.val} |-> IF k = key.val THEN v.val ELSE acc[k]]
        nextkey == SkipWs(s, after + 1)
    IN  IF ~key.ok THEN key
        ELSE IF CharAt(s, colon) # ":" THEN Fail("Expecting ':' delimiter")
        ELSE IF ~v.ok THEN v
        ELSE IF CharAt(s, after) = "}" THEN Ok([kind |-> "object", val |-> pairs], after + 1)
        ELSE IF CharAt(s, after) # "," THEN Fail("Expecting ',' delimiter")
        ELSE IF CharAt(s, nextkey) # "\""
             THEN Fail("Expecting property name enclosed in double quotes")
        ELSE ObjectLoop(s, nextkey + 1, pairs)

\* scanner.py_make_scanner._scan_once
ScanOnce(s, i) ==
    LET c == CharAt(s, i)
    IN  IF c = "\""
        THEN LET str == ScanString(s, i + 1, <<>>)
             IN  IF str.ok THEN Ok([kind |-> "string", val |-> str.val], str.pos) ELSE str
        ELSE IF c = "{" THEN ParseObject(s, i + 1)
        ELSE IF c = "[" THEN ParseArray(s, i + 1)
        ELSE IF c = "n" /\ Literal(s, i, <<"n", "u", "l", "l">>)
             THEN Ok([kind |-> "null", val |-> None], i + 4)
        ELSE IF c = "t" /\ Literal(s, i, <<"t", "r", "u", "e">>)
             THEN Ok([kind |-> "bool", val |-> TRUE], i + 4)
        ELSE IF c = "f" /\ Literal(s, i, <<"f", "a", "l", "s", "e">>)
             THEN Ok([kind |-> "bool", val |-> FALSE], i + 5)
        ELSE IF c = "0" THEN Ok([kind |-> "number", val |-> 0], i + 1)
        ELSE IF c \in Digits THEN ScanDigits(s, i, 0)
        ELSE Fail("Expecting value")

\* json.loads(s): JSONDecoder.decode
json_loads(s) ==
    LET v == ScanOnce(s, SkipWs(s, 1))
    IN  IF ~v.ok THEN v
        ELSE IF SkipWs(s, v.pos) # Len(s) + 1 THEN Fail("Extra data")
        ELSE v

----------------------------------------------------------------------------
(* QwenClient._clean_and_parse_json and _extract_json_substring *)

Lower(c) ==
    CASE c = "J" -> "j" [] c = "S" -> "s" [] c = "O" -> "o" [] c = "N" -> "n" [] OTHER -> c

\* the pattern matches at i: its literal, then \s*; the index after the match, 0 if none
RECURSIVE SkipSpaces(_, _)
SkipSpaces(s, i) == IF CharAt(s, i) \in Whitespace THEN SkipSpaces(s, i + 1) ELSE i

MatchEnd(s, i, literal, ignorecase) ==
    IF /\ i + Len(literal) - 1 <= Len(s)
       /\ \A k \in DOMAIN literal :
            (IF ignorecase THEN Lower(s[i + k - 1]) ELSE s[i + k - 1]) = literal[k]
    THEN SkipSpaces(s, i + Len(literal))
    ELSE 0

\* re.sub(literal + r"\s*", replacement, s), from index i on
RECURSIVE SubFrom(_, _, _, _, _)
SubFrom(s, i, literal, ignorecase, replacement) ==
    IF i > Len(s) THEN <<>>
    \* no match can start from i on: the rest is copied
    ELSE IF \A k \in i..Len(s) : s[k] # literal[1] THEN SubSeq(s, i, Len(s))
    ELSE LET e == MatchEnd(s, i, literal, ignorecase)
         IN  IF e # 0 THEN replacement \o SubFrom(s, e, literal, ignorecase, replacement)
             ELSE <<s[i]>> \o SubFrom(s, i + 1, literal, ignorecase, replacement)

\* the backquote character
Tick == "<backquote>"
FenceJson == <<Tick, Tick, Tick, "j", "s", "o", "n">>
Fence == <<Tick, Tick, Tick>>

\* lines 139-141
StripFences(s) ==
    Strip(SubFrom(SubFrom(s, 1, FenceJson, TRUE, <<>>), 1, Fence, FALSE, <<>>))

\* re.sub(r",\s*}", "}", s) and re.sub(r",\s*]", "]", s): the comma matches
\* at i when only whitespace lies between it and the bracket
RECURSIVE DropCommaBefore(_, _, _)
DropCommaBefore(s, i, bracket) ==
    IF i > Len(s) THEN <<>>
    \* no comma from i on: the rest is copied
    ELSE IF \A k \in i..Len(s) : s[k] # "," THEN SubSeq(s, i, Len(s))
    ELSE IF s[i] = "," /\ CharAt(s, SkipSpaces(s, i + 1)) = bracket
         THEN <<bracket>> \o DropCommaBefore(s, SkipSpaces(s, i + 1) + 1, bracket)
         ELSE <<s[i]>> \o DropCommaBefore(s, i + 1, bracket)

\* the characters of [\x00-\x08\x0B-\x1F] among those modelled: not tab, not newline
RemovedControls == {Ctl, "\r", "\f"}

\* lines 162-164 and 170-172
Repair(s) ==
    SelectSeq(DropCommaBefore(DropCommaBefore(s, 1, "}"), 1, "]"),
              LAMBDA c : c \notin RemovedControls)

TruncHead == 800
TruncTail == 800
Elision == <<"\n", ".", ".", ".", "\n">>

\* a plausible slip: the tail is what follows the head
_truncate_RestAsTail(s, head, tail) ==
    IF Len(s) <= head + tail THEN s
    ELSE SubSeq(s, 1, head) \o Elision \o SubSeq(s, head + 1, Len(s))

\* lines 143-146
_truncate(s, head, tail) ==
    IF Len(s) <= head + tail THEN s
    ELSE SubSeq(s, 1, head) \o Elision \o SubSeq(s, Len(s) - tail + 1, Len(s))

NotFound == [found |-> FALSE]
Found(text) == [found |-> TRUE, text |-> text]

\* a plausible slip: only an object may open the region
RECURSIVE FirstBracket_BraceOnly(_, _)
FirstBracket_BraceOnly(s, i) ==
    IF i > Len(s) THEN 0
    ELSE IF s[i] = "{" THEN i
    ELSE FirstBracket_BraceOnly(s, i + 1)

\* lines 183-186: the index of the first "{" or "[", 0 if there is none
RECURSIVE FirstBracket(_, _)
FirstBracket(s, i) ==
    IF \A k \in i..Len(s) : s[k] \notin {"{", "["} THEN 0
    ELSE IF s[i] \in {"{", "["} THEN i
    ELSE FirstBracket(s, i + 1)

\* a plausible slip: the scan does not know string literals
RECURSIVE ExtractScan_NoStrings(_, _, _, _, _, _, _)
ExtractScan_NoStrings(s, start, closing, idx, stack, in_string, escape) ==
    IF idx > Len(s) THEN NotFound
    ELSE LET ch == s[idx]
             last == stack[Len(stack)]
             popped == SubSeq(stack, 1, Len(stack) - 1)
         IN  IF ch \in {"{", "["}
             THEN ExtractScan_NoStrings(s, start, closing, idx + 1, Append(stack, ch), FALSE, FALSE)
             ELSE IF ch \in {"}", "]"} /\ stack # <<>>
                  THEN IF (last = "{" /\ ch # "}") \/ (last = "[" /\ ch # "]") THEN NotFound
                       ELSE IF popped = <<>> /\ ch = closing
                            THEN Found(Strip(SubSeq(s, start, idx)))
                       ELSE ExtractScan_NoStrings(s, start, closing, idx + 1, popped, FALSE, FALSE)
             ELSE ExtractScan_NoStrings(s, start, closing, idx + 1, stack, FALSE, FALSE)

\* lines 199-229: the scan from idx on
RECURSIVE ExtractScan(_, _, _, _, _, _, _)
ExtractScan(s, start, closing, idx, stack, in_string, escape) ==
    IF idx > Len(s) THEN NotFound
    ELSE LET ch == s[idx]
             last == stack[Len(stack)]
             popped == SubSeq(stack, 1, Len(stack) - 1)
         IN  IF in_string
             THEN IF escape THEN ExtractScan(s, start, closing, idx + 1, stack, TRUE, FALSE)
                  ELSE IF ch = "\\" THEN ExtractScan(s, start, closing, idx + 1, stack, TRUE, TRUE)
                  ELSE IF ch = "\"" THEN ExtractScan(s, start, closing, idx + 1, stack, FALSE, FALSE)
                  ELSE ExtractScan(s, start, closing, idx + 1, stack, TRUE, FALSE)
             ELSE IF ch = "\"" THEN ExtractScan(s, start, closing, idx + 1, stack, TRUE, escape)
             ELSE IF ch \in {"{", "["}
                  THEN ExtractScan(s, start, closing, idx + 1, Append(stack, ch), FALSE, escape)
             ELSE IF ch \in {"}", "]"}
                  THEN IF stack = <<>>
                       THEN ExtractScan(s, start, closing, idx + 1, stack, FALSE, escape)
                       ELSE IF (last = "{" /\ ch # "}") \/ (last = "[" /\ ch # "]") THEN NotFound
                       ELSE IF popped = <<>> /\ ch = closing
                            THEN Found(Strip(SubSeq(s, start, idx)))
                       ELSE ExtractScan(s, start, closing, idx + 1, popped, FALSE, escape)
             ELSE ExtractScan(s, start, closing, idx + 1, stack, FALSE, escape)

\* lines 181-229
_extract_json_substring(s) ==
    LET start == FirstBracket(s, 1)
    IN  IF start = 0 THEN NotFound
        ELSE ExtractScan(s, start, IF s[start] = "{" THEN "}" ELSE "]", start, <<>>, FALSE, FALSE)

\* line 155: if extracted
ExtractedTruthy(e) == e.found /\ e.text # <<>>

----------------------------------------------------------------------------
(* QwenClient.analyze_content *)

\* dict[key] = v and dict.setdefault(key, v)
SetItem(d, key, v) == [k \in DOMAIN d \cup {key} |-> IF k = key THEN v ELSE d[k]]
SetDefault(d, key, v) == IF key \in DOMAIN d THEN d ELSE SetItem(d, key, v)

\* s contains sub as a substring ("error" in result, for a str)
Contains(s, sub) ==
    \E i \in 0..(Len(s) - Len(sub)) : SubSeq(s, i + 1, i + Len(sub)) = sub

SummaryChars == 200
DefaultMaxFullTextChars == 3000
GenericTitle == <<"<generic title>">>
Ellipsis == <<".", ".", ".">>

\* transcript_text[:200] + "..." if len(transcript_text) > 200 else transcript_text
SummaryOf(text) ==
    IF Len(text) > SummaryChars THEN SubSeq(text, 1, SummaryChars) \o Ellipsis ELSE text

\* video_title or "<generic title>"
TitleOf(title) == IF title # <<>> THEN title ELSE GenericTitle

\* a plausible slip: title and summary are filled only when the key is absent
_ensure_required_fields_OnlyAbsent(result, title, text) ==
    SetDefault(SetDefault(SetDefault(SetDefault(SetDefault(result,
        "title", TitleOf(title)), "summary", SummaryOf(text)),
        "formatted_full_text", text), "positions", <<>>), "quotes", <<>>)

\* a plausible slip: the summary is abbreviated again on every pass
_ensure_required_fields_Reabbreviate(result, title, text) ==
    LET r1 == IF Get(result, "title", <<>>) = <<>>
              THEN SetItem(result, "title", TitleOf(title)) ELSE result
        r2 == SetItem(r1, "summary", SummaryOf(Get(r1, "summary", text)) \o Ellipsis)
    IN  SetDefault(SetDefault(SetDefault(r2, "formatted_full_text", text), "positions", <<>>),
                   "quotes", <<>>)

\* lines 399-416; "" and [] are both the empty sequence
_ensure_required_fields(result, title, text) ==
    LET r1 == IF Get(result, "title", <<>>) = <<>>
              THEN SetItem(result, "title", TitleOf(title)) ELSE result
        r2 == IF Get(r1, "summary", <<>>) = <<>>
              THEN SetItem(r1, "summary", SummaryOf(text)) ELSE r1
    IN  SetDefault(SetDefault(SetDefault(r2, "formatted_full_text", text), "positions", <<>>),
                   "quotes", <<>>)

\* lines 418-436
_get_fallback_result(title, text) ==
    [title |-> TitleOf(title),
     summary |-> SummaryOf(text),
     tags |-> <<"video", "content">>,
     key_insights |-> <<[heading |-> "main content", content |-> "analysis unavailable"]>>,
     data_table |-> [headers |-> <<>>, rows |-> <<>>],
     action_items |-> <<>>,
     topics |-> <<"video content">>,
     sentiment |-> "neutral",
     category |-> "general",
     error |-> "LLM analysis failed"]

\* the dict _clean_and_parse_json returns when no stage parses (lines 175-179)
ErrorEnvelope(truncated, message) ==
    [error |-> "Failed to parse JSON", raw_content_truncated |-> truncated,
     parse_error |-> message]

\* what one generate_json request gives: an exception once its retries are
\* used up (lines 125-127), or the value of _clean_and_parse_json (line 119),
\* which is any JSON value or the error envelope
ErrorWord == <<"e", "r", "r", "o", "r">>
Raised == [kind |-> "raise"]
SomePositions == <<[name |-> "N", action |-> "A", position_details |-> "D", logic |-> "L"]>>
SomeQuotes == << <<"Q">> >>
ModelObjects ==
    {[k \in {"tags"} \cup KeyIf("title", t) \cup KeyIf("summary", sm)
            \cup KeyIf("formatted_full_text", f)
            \cup KeyIf("positions", ps) \cup KeyIf("quotes", q) |->
        CASE k = "tags" -> <<"t">> [] k = "title" -> t[1] [] k = "summary" -> sm[1] [] k = "formatted_full_text" -> f[1]
          [] k = "positions" -> ps[1] [] k = "quotes" -> q[1]] :
        t \in Optional({<<>>, <<"T">>}), sm \in Optional({<<>>, <<"S">>}),
        f \in Optional({<<>>, <<"F">>}), ps \in Optional({<<>>, SomePositions}),
        q \in Optional({<<>>, SomeQuotes})}
ErrorObjects ==
    {ErrorEnvelope(<<"r">>, <<"p">>), [error |-> "model said so", title |-> <<"T">>]}
OutcomeKinds == {"object", "array", "string", "number", "null", "raise"}
Outcomes(kind) ==
    CASE kind = "object" -> {[kind |-> "object", val |-> o] : o \in ModelObjects \cup ErrorObjects}
      [] kind = "array" -> {[kind |-> "array", val |-> a] : a \in {<<>>, <<ErrorWord>>}}
      [] kind = "string" ->
            {[kind |-> "string", val |-> x] : x \in {<<"o", "k">>, <<"a">> \o ErrorWord}}
      [] kind = "number" -> {[kind |-> "number", val |-> 1]}
      [] kind = "null" -> {[kind |-> "null", val |-> None]}
      [] kind = "raise" -> {Raised}

\* "error" in result: "yes", "no", or "raise" for a value that is no container
ErrorIn(v) ==
    CASE v.kind = "object" -> IF "error" \in DOMAIN v.val THEN "yes" ELSE "no"
      [] v.kind = "array" -> IF \E i \in DOMAIN v.val : v.val[i] = ErrorWord THEN "yes" ELSE "no"
      [] v.kind = "string" -> IF Contains(v.val, ErrorWord) THEN "yes" ELSE "no"
      [] OTHER -> "raise"

\* a plausible slip: the threshold itself counts as long
IsLong_AtThreshold(text, maxchars) == Len(text) >= maxchars

\* line 245: is_long_transcript
IsLong(text, maxchars) == Len(text) > maxchars

\* lines 368-376 and 385-393: what analyze_content returns after the Compact
\* request gave o.  Every exception ends in the handler of lines 395-397.
AfterCompact(o, title, text) ==
    IF o.kind = "raise" \/ ErrorIn(o) # "no" \/ o.kind # "object"
    THEN _get_fallback_result(title, text)
    ELSE _ensure_required_fields(SetDefault(o.val, "formatted_full_text", <<>>), title, text)

\* a plausible slip: every value that is not returned at once leads to Compact
DemotesAfterFull_AnyFailure(o) == ~(o.kind = "object" /\ ErrorIn(o) = "no")

\* lines 378-384: after the Full request gave o, the function goes on to the
\* Compact request exactly when "error" not in result is false and
\* result['error'] can be read
DemotesAfterFull(o) == o.kind = "object" /\ ErrorIn(o) = "yes"

\* lines 378-382 and 395-397: what analyze_content returns after the Full
\* request gave o, when it does not go on to the Compact request
AfterFull(o, title, text) ==
    IF o.kind = "object" /\ ErrorIn(o) = "no"
    THEN _ensure_required_fields(o.val, title, text)
    ELSE _get_fallback_result(title, text)

----------------------------------------------------------------------------
(* idle values of the components *)

MergeIdle ==
    /\ sentences = <<>> /\ segments = <<>> /\ merged = <<>> /\ mpc = "idle"
TingwuIdle ==
    /\ data = <<>> /\ parsed = <<>> /\ paths = <<>> /\ tpc = "idle"
CleanIdle ==
    /\ raw = <<>> /\ content = <<>> /\ extracted = [found |-> FALSE] /\ tried = <<>>
    /\ cresult = None /\ cfrom = "none" /\ cpc = "idle"
AnalyzeIdle ==
    /\ transcript_text = <<>> /\ video_title = <<>> /\ max_full_text_chars = 0
    /\ requests = <<>> /\ outcomes = <<>> /\ aresult = None /\ apc = "idle"
ProcessIdle ==
    /\ raw_result = <<>> /\ processed = <<>> /\ ppc = "idle"
GenIdle ==
    /\ replies = <<>> /\ gresult = None /\ gpc = "idle"
CoreIdle == MergeIdle /\ TingwuIdle /\ CleanIdle /\ AnalyzeIdle /\ ProcessIdle
RunIdle ==
    /\ calls = <<>> /\ frames = <<>> /\ rpc = <<>> /\ outs = <<>> /\ loglines = 0
ValidIdle ==
    /\ config = <<>> /\ verdict = None /\ vpc = "idle"
PipeIdle ==
    /\ history_db = {} /\ all_videos = <<>> /\ new_videos = <<>> /\ video_info = None
    /\ presult = <<>> /\ spc = "off" /\ failed_at = None /\ failed = {}
    /\ found_again = {} /\ checks = 0
OtherIdle == GenIdle /\ RunIdle /\ ValidIdle /\ PipeIdle

----------------------------------------------------------------------------
(* SpecMerge: one call of _merge_sentences_by_speaker on any list of units *)

MergeInit ==
    /\ sentences \in SeqUpTo(WellTimedUnits, MaxUnits)
    /\ segments = <<>>
    /\ merged = <<>>
    /\ mpc = "call"
    /\ TingwuIdle /\ CleanIdle /\ AnalyzeIdle /\ ProcessIdle /\ OtherIdle

MergeCall ==
    /\ mpc = "call"
    /\ segments' = MergeRun(sentences).segments
    /\ merged' = MergeRun(sentences).merged
    /\ mpc' = "done"
    /\ UNCHANGED <<sentences, tingwuVars, cleanVars, analyzeVars, processVars, otherVars>>

MergeNext == MergeCall

SpecMerge == MergeInit /\ [][MergeNext]_vars

----------------------------------------------------------------------------
(* SpecAnalyze: one call of analyze_content; each generate_json request is  *)
(* a step, and what it gives is chosen freely among Outcomes                *)

MaxShort == 2
MaxOver == 1

\* text of n characters, no two neighbours alike
TextOfLen(n) == [i \in 1..n |-> IF i % 2 = 1 THEN "a" ELSE "b"]
TextLengths == 0..MaxShort \cup (SummaryChars - 1)..(SummaryChars + MaxOver)
Thresholds == {1, SummaryChars, DefaultMaxFullTextChars}

AnalyzeInit ==
    /\ transcript_text \in {TextOfLen(n) : n \in TextLengths}
    /\ video_title \in {<<>>, <<"V">>}
    /\ max_full_text_chars \in Thresholds
    /\ requests = <<>>
    /\ outcomes = <<>>
    /\ aresult = None
    /\ apc = "call"
    /\ MergeIdle /\ TingwuIdle /\ CleanIdle /\ ProcessIdle /\ OtherIdle

\* line 368 and what follows it
RequestCompactLong ==
    /\ apc = "call"
    /\ IsLong(transcript_text, max_full_text_chars)
    /\ \E kind \in OutcomeKinds : \E o \in Outcomes(kind) :
        /\ requests' = Append(requests, "compact")
        /\ outcomes' = Append(outcomes, o)
        /\ aresult' = AfterCompact(o, video_title, transcript_text)
        /\ apc' = "done"
    /\ UNCHANGED <<transcript_text, video_title, max_full_text_chars>>
    /\ UNCHANGED <<mergeVars, tingwuVars, cleanVars, processVars, otherVars>>

\* line 378 and what follows it, up to the return or to the request of line 385
RequestFull ==
    /\ apc = "call"
    /\ ~IsLong(transcript_text, max_full_text_chars)
    /\ \E kind \in OutcomeKinds : \E o \in Outcomes(kind) :
        /\ requests' = Append(requests, "full")
        /\ outcomes' = Append(outcomes, o)
        /\ IF DemotesAfterFull(o)
           THEN apc' = "demoted" /\ aresult' = aresult
           ELSE apc' = "done" /\ aresult' = AfterFull(o, video_title, transcript_text)
    /\ UNCHANGED <<transcript_text, video_title, max_full_text_chars>>
    /\ UNCHANGED <<mergeVars, tingwuVars, cleanVars, processVars, otherVars>>

\* line 385 and what follows it
RequestCompactDemoted ==
    /\ apc = "demoted"
    /\ \E kind \in OutcomeKinds : \E o \in Outcomes(kind) :
        /\ requests' = Append(requests, "compact")
        /\ outcomes' = Append(outcomes, o)
        /\ aresult' = AfterCompact(o, video_title, transcript_text)
        /\ apc' = "done"
    /\ UNCHANGED <<transcript_text, video_title, max_full_text_chars>>
    /\ UNCHANGED <<mergeVars, tingwuVars, cleanVars, processVars, otherVars>>

AnalyzeNext == RequestCompactLong \/ RequestFull \/ RequestCompactDemoted

SpecAnalyze == AnalyzeInit /\ [][AnalyzeNext]_vars

----------------------------------------------------------------------------
(* SpecClean: one call of _clean_and_parse_json; each parse attempt is a    *)
(* step                                                                     *)

MaxRawLen == 4

\* the texts a call is tried on: every text over RawAlphabet of at most
\* MaxRawLen characters, and the examples
RawAlphabet == {"[", "]", "{", "}", ",", "1", "\"", Ctl}

\* longer texts a call is tried on
Examples ==
    {\* the fenced object with a trailing comma of the specification
     <<Tick, Tick, Tick, "j", "s", "o", "n", "\n", "{", "\"", "a", "\"", ":", " ", "1", ",", "}", "\n", Tick, Tick, Tick>>,
     \* an object inside prose
     <<"s", "o", "m", "e", " ", "p", "r", "o", "s", "e", " ", "{", "\"", "a", "\"", ":", " ", "[", "1", ",", "2", "]", "}", " ", "m", "o", "r", "e", " ", "p", "r", "o", "s", "e">>,
     \* no bracket at all
     <<"n", "o", "t", " ", "j", "s", "o", "n", " ", "a", "t", " ", "a", "l", "l">>,
     \* a plain object
     <<"{", "\"", "a", "\"", ":", " ", "1", "}">>,
     \* an upper-case fence
     <<Tick, Tick, Tick, "J", "S", "O", "N", " ", "[", "1", "]", " ", Tick, Tick, Tick>>,
     \* a control character after a backslash: only the repaired whole content parses
     <<"[", "\"", "\\", Ctl, "\"", "]", "\"", "]">>,
     \* a bracket inside a string
     <<"[", "\"", "]", "\"", ",", " ", "2", "]">>,
     \* a trailing comma followed by whitespace, inside prose
     <<"x", " ", "[", "1", " ", ",", " ", "]", " ", "y">>,
     \* a literal
     <<"n", "u", "l", "l">>,
     \* a fenced array with a trailing comma
     <<Tick, Tick, Tick, "j", "s", "o", "n", "\n", "[", "1", ",", "]", "\n", Tick, Tick, Tick>>,
     \* a fenced array with a trailing comma, whose string holds a comma and a bracket
     <<Tick, Tick, Tick, "j", "s", "o", "n", "\n", "[", "\"", ",", "]", "\"", ",", "]", "\n", Tick, Tick, Tick>>,
     \* an object inside prose whose string holds a fence marker
     <<"a", " ", "{", "\"", "k", "\"", ":", " ", "\"", Tick, Tick, Tick, "\"", "}", " ", "b">>}
RawTexts == SeqUpTo(RawAlphabet, MaxRawLen) \cup Examples

\* texts around the length at which _truncate starts to cut: n characters,
\* the first TruncHead of them "a", the last TruncTail of them "c"
MaxLongOver == 2
LongText(n) ==
    [i \in 1..n |-> IF i <= TruncHead THEN "a" ELSE IF i > n - TruncTail THEN "c" ELSE "b"]
LongTexts ==
    {LongText(n) : n \in (TruncHead + TruncTail - MaxLongOver)..(TruncHead + TruncTail + MaxLongOver)}

CleanInit ==
    /\ raw \in RawTexts \cup LongTexts
    /\ content = <<>>
    /\ extracted = NotFound
    /\ tried = <<>>
    /\ cresult = None
    /\ cfrom = "none"
    /\ cpc = "call"
    /\ MergeIdle /\ TingwuIdle /\ AnalyzeIdle /\ ProcessIdle /\ OtherIdle

\* the cascade without stages 2 and 3
AfterExtract_SkipRegion(e) == "stage4"

\* where the function goes after line 155
AfterExtract(e) == IF ExtractedTruthy(e) THEN "stage2" ELSE "stage4"

\* a parse attempt on text, as stage number k: return its value, or go on to
\* the position next
Attempt(k, text, next) ==
    /\ tried' = Append(tried, k)
    /\ IF json_loads(text).ok
       THEN cresult' = json_loads(text).val /\ cfrom' = "parse" /\ cpc' = "done"
       ELSE cresult' = cresult /\ cfrom' = cfrom /\ cpc' = next

\* lines 139-141
CleanFences ==
    /\ cpc = "call"
    /\ content' = StripFences(raw)
    /\ cpc' = "stage1"
    /\ UNCHANGED <<raw, extracted, tried, cresult, cfrom>>
    /\ UNCHANGED <<mergeVars, tingwuVars, analyzeVars, processVars, otherVars>>

\* lines 148-152
Stage1 ==
    /\ cpc = "stage1"
    /\ Attempt(1, content, "extract")
    /\ UNCHANGED <<raw, content, extracted>>
    /\ UNCHANGED <<mergeVars, tingwuVars, analyzeVars, processVars, otherVars>>

\* lines 154-155
ExtractRegion ==
    /\ cpc = "extract"
    /\ extracted' = _extract_json_substring(content)
    /\ cpc' = AfterExtract(_extract_json_substring(content))
    /\ UNCHANGED <<raw, content, tried, cresult, cfrom>>
    /\ UNCHANGED <<mergeVars, tingwuVars, analyzeVars, processVars, otherVars>>

\* lines 156-159
Stage2 ==
    /\ cpc = "stage2"
    /\ Attempt(2, extracted.text, "stage3")
    /\ UNCHANGED <<raw, content, extracted>>
    /\ UNCHANGED <<mergeVars, tingwuVars, analyzeVars, processVars, otherVars>>

\* lines 161-167
Stage3 ==
    /\ cpc = "stage3"
    /\ Attempt(3, Repair(extracted.text), "stage4")
    /\ UNCHANGED <<raw, content, extracted>>
    /\ UNCHANGED <<mergeVars, tingwuVars, analyzeVars, processVars, otherVars>>

\* lines 169-179
Stage4 ==
    /\ cpc = "stage4"
    /\ tried' = Append(tried, 4)
    /\ cpc' = "done"
    /\ IF json_loads(Repair(content)).ok
       THEN cresult' = json_loads(Repair(content)).val /\ cfrom' = "parse"
       ELSE /\ cresult' = [kind |-> "object",
                           val |-> ErrorEnvelope(_truncate(content, TruncHead, TruncTail),
                                                 json_loads(Repair(content)).msg)]
            /\ cfrom' = "envelope"
    /\ UNCHANGED <<raw, content, extracted>>
    /\ UNCHANGED <<mergeVars, tingwuVars, analyzeVars, processVars, otherVars>>

CleanNext == CleanFences \/ Stage1 \/ ExtractRegion \/ Stage2 \/ Stage3 \/ Stage4

SpecClean == CleanInit /\ [][CleanNext]_vars

----------------------------------------------------------------------------
(* Claims about _merge_sentences_by_speaker *)

\* the speaker_id of unit i as the function reads it (line 256)
SpeakerOf(i) == Get(sentences[i], "SpeakerId", "1")

\* the text of unit i as the function reads it (line 257)
TextOf(i) == Strip(Get(sentences[i], "Text", <<>>))

\* the (text, speaker) example of the specification, with increasing timestamps
IsExampleABC ==
    /\ Len(sentences) = 3
    /\ <<TextOf(1), TextOf(2), TextOf(3)>> = <<<<"A">>, <<"B">>, <<"C">>>>
    /\ <<SpeakerOf(1), SpeakerOf(2), SpeakerOf(3)>> = <<"S1", "S1", "S2">>
    /\ \A i \in 1..2 : sentences[i].BeginTime <= sentences[i + 1].BeginTime

\* units whose speaker id is empty fall under the tie-break rule of the
\* specification and are left out of the claims below
AllSpeakersNamed == \A i \in DOMAIN sentences : SpeakerOf(i) # ""

\* timestamps increase from unit to unit and no unit overlaps the next
Monotone ==
    \A i \in DOMAIN sentences :
        /\ sentences[i].BeginTime <= sentences[i].EndTime
        /\ i < Len(sentences) => sentences[i].EndTime <= sentences[i + 1].BeginTime

\* C1: every returned segment carries the speaker_id of each unit whose text
\* it holds, and the units (A,S1),(B,S1),(C,S2) give exactly the two segments
\* "AB" of speaker S1 and "C" of speaker S2.
C1_SegmentCarriesSpeakerOfItsUnits ==
    (mpc = "done" /\ AllSpeakersNamed) =>
        /\ \A k \in DOMAIN segments : \A j \in DOMAIN merged[k] :
                segments[k].speaker_id = SpeakerOf(merged[k][j])
        /\ IsExampleABC =>
                /\ Len(segments) = 2
                /\ segments[1].text = <<"A", "B">> /\ segments[1].speaker_id = "S1"
                /\ segments[2].text = <<"C">> /\ segments[2].speaker_id = "S2"

\* the maximal runs of consecutive units with the same speaker_id, as pairs
\* <<speaker, concatenated text>>, of the first n units
RECURSIVE SpeakerRuns(_)
SpeakerRuns(n) ==
    IF n = 0 THEN <<>>
    ELSE LET before == SpeakerRuns(n - 1)
         IN  IF before # <<>> /\ before[Len(before)][1] = SpeakerOf(n)
             THEN [before EXCEPT ![Len(before)] = <<@[1], @[2] \o TextOf(n)>>]
             ELSE Append(before, <<SpeakerOf(n), TextOf(n)>>)

AllTextsNonEmpty == \A i \in DOMAIN sentences : TextOf(i) # <<>>

\* C5: when every unit has non-empty text, the output has exactly one segment
\* per maximal run of consecutive units with the same speaker_id, in input
\* order, and its text is the concatenation of the texts of the run.
C5_OneSegmentPerSpeakerRun ==
    (mpc = "done" /\ AllTextsNonEmpty /\ AllSpeakersNamed) =>
        /\ Len(segments) = Len(SpeakerRuns(Len(sentences)))
        /\ \A k \in DOMAIN segments :
                segments[k].text = SpeakerRuns(Len(sentences))[k][2]

\* C6: every returned segment starts at the BeginTime of the first unit merged
\* into it and ends at the EndTime of the last unit merged into it (for the
\* final segment the EndTime of the last unit of the input is accepted too).
C6_SegmentTimesOfFirstAndLastUnit ==
    (mpc = "done" /\ AllSpeakersNamed /\ Monotone) =>
        \A k \in DOMAIN segments :
            /\ segments[k].start_time = sentences[merged[k][1]].BeginTime
            /\ \/ segments[k].end_time = sentences[merged[k][Len(merged[k])]].EndTime
               \/ /\ k = Len(segments)
                  /\ segments[k].end_time = sentences[Len(sentences)].EndTime

----------------------------------------------------------------------------
(* SpecTingwu: one call of _parse_json_content on any payload *)

TingwuInit ==
    /\ data \in Payloads
    /\ parsed = <<>>
    /\ paths = <<>>
    /\ tpc = "call"
    /\ MergeIdle /\ CleanIdle /\ AnalyzeIdle /\ ProcessIdle /\ OtherIdle

ParseCall ==
    /\ tpc = "call"
    /\ parsed' = ParseRun(data).result
    /\ paths' = ParseRun(data).paths
    /\ tpc' = "done"
    /\ UNCHANGED <<data, mergeVars, cleanVars, analyzeVars, processVars, otherVars>>

TingwuNext == ParseCall

SpecTingwu == TingwuInit /\ [][TingwuNext]_vars

----------------------------------------------------------------------------
(* Claims about _parse_json_content *)

\* the dict the strategies read (line 193)
TranscriptionOf(d) == Get(d, "Transcription", d)

HasKey(key) == key \in DOMAIN TranscriptionOf(data)

----------------------------------------------------------------------------
(* Claims about analyze_content *)

\* the keys the schemas of lines 291 and 357 mark required in both modes
RequiredKeys == {"title", "summary", "positions", "quotes"}
EnvelopeKeys == {"error", "raw_content_truncated", "parse_error"}

LastRequest == requests[Len(requests)]
LastOutcome == outcomes[Len(outcomes)]
IsErrorObject(o) == o.kind = "object" /\ "error" \in DOMAIN o.val
IsEnvelope(o) == o.kind = "object" /\ EnvelopeKeys \subseteq DOMAIN o.val

C3_ReturnsRequiredKeysOrEnvelope ==
    apc = "done" =>
        \/ RequiredKeys \subseteq DOMAIN aresult
        \/ EnvelopeKeys \subseteq DOMAIN aresult

C10_FallbackHasEmptyItemLists ==
    (apc = "done" /\ LastRequest = "compact" /\ IsEnvelope(LastOutcome)) =>
        /\ aresult.title = (IF video_title # <<>> THEN video_title ELSE GenericTitle)
        /\ aresult.summary =
                (IF Len(transcript_text) <= 200 THEN transcript_text
                 ELSE SubSeq(transcript_text, 1, 200) \o <<".", ".", ".">>)
        /\ {"positions", "quotes"} \subseteq DOMAIN aresult
        /\ aresult["positions"] = <<>>
        /\ aresult["quotes"] = <<>>

----------------------------------------------------------------------------
(* Claims about _clean_and_parse_json *)

\* the region the bracket matcher finds in the cleaned content
RegionOf(text) == _extract_json_substring(text)

\* the text stage k parses: lines 149, 158, 164-166 and 170-172
StageText(k) ==
    CASE k = 1 -> content
      [] k = 2 -> RegionOf(content).text
      [] k = 3 -> Repair(RegionOf(content).text)
      [] k = 4 -> Repair(content)

\* stages 2 and 3 have a text only when the matcher found a region
StageParses(k) ==
    /\ k \in {2, 3} => ExtractedTruthy(RegionOf(content))
    /\ json_loads(StageText(k)).ok

\* C7: the value returned is a JSON object or array parsed from the input, or
\* the ErrorEnvelope (itself an object); it is never any other kind of value.
C7_ReturnsObjectArrayOrEnvelope ==
    cpc = "done" => cresult.kind \in {"object", "array"}

\* C8: the stages run in the order 1, 2, 3, 4; a stage runs only if every
\* earlier stage failed; the value returned is the value of the first stage
\* that parses; the ErrorEnvelope is returned only when all stages failed.
C8_FirstParsingStageWins ==
    /\ \A i, j \in DOMAIN tried : i < j => tried[i] < tried[j]
    /\ \A i \in DOMAIN tried : \A k \in 1..(tried[i] - 1) : ~StageParses(k)
    /\ cpc = "done" =>
        /\ tried # <<>>
        /\ cfrom \in {"parse", "envelope"}
        /\ cfrom = "parse" =>
            /\ StageParses(tried[Len(tried)])
            /\ cresult = json_loads(StageText(tried[Len(tried)])).val
        /\ cfrom = "envelope" =>
            /\ \A k \in 1..4 : ~StageParses(k)
            /\ tried[Len(tried)] = 4
            /\ cresult.val = ErrorEnvelope(_truncate(content, TruncHead, TruncTail),
                                           json_loads(Repair(content)).msg)

\* all four stages ran and the last one, the repair of the whole content,
\* gave the value returned
C8_Witness ==
    /\ cpc = "done"
    /\ tried = <<1, 2, 3, 4>>
    /\ cfrom = "parse"

----------------------------------------------------------------------------
(* Claims about _ensure_required_fields *)

\* the call of line 380: the Full request gave an object without an error key
\* and analyze_content returned _ensure_required_fields of it
EnsuredFull ==
    /\ apc = "done"
    /\ requests = <<"full">>
    /\ outcomes[1].kind = "object"
    /\ ~IsErrorObject(outcomes[1])

CompletedKeys == {"title", "summary", "formatted_full_text", "positions", "quotes"}

C12_EnsureIdempotent ==
    EnsuredFull =>
        _ensure_required_fields(aresult, video_title, transcript_text) = aresult

\* the first pass changed the object (it filled title and summary, the
\* summary with the empty text) and the second pass has nothing to change
C12_Witness ==
    /\ EnsuredFull
    /\ aresult # outcomes[1].val
    /\ "summary" \notin DOMAIN outcomes[1].val
    /\ transcript_text = <<>>
    /\ aresult["summary"] = <<>>

----------------------------------------------------------------------------
(* Claims about the segments and the text _parse_json_content returns *)

SentencesOf(d) == Get(TranscriptionOf(d), "Sentences", <<>>)
ParagraphsOf(d) == Get(TranscriptionOf(d), "Paragraphs", <<>>)

\* every unit and every word begins before it ends, and begin and end times
\* do not decrease in input order
WellTimedPayload ==
    /\ \A i \in DOMAIN SentencesOf(data) :
        /\ SentencesOf(data)[i].BeginTime <= SentencesOf(data)[i].EndTime
        /\ i < Len(SentencesOf(data)) =>
                SentencesOf(data)[i].EndTime <= SentencesOf(data)[i + 1].BeginTime
    /\ \A i \in DOMAIN ParagraphsOf(data) :
        LET ws == Get(ParagraphsOf(data)[i], "Words", <<>>)
        IN  \A j \in DOMAIN ws :
                /\ ws[j].Start <= ws[j].End
                /\ j < Len(ws) => (ws[j].Start <= ws[j + 1].Start /\ ws[j].End <= ws[j + 1].End)

\* C13: for a payload whose times are well ordered, every segment returned,
\* on any of the three paths, has non-empty text and start_time <= end_time.
C13_SegmentsHaveTextAndOrderedTimes ==
    (tpc = "done" /\ WellTimedPayload) =>
        \A i \in DOMAIN parsed.segments :
            /\ parsed.segments[i].text # <<>>
            /\ parsed.segments[i].start_time <= parsed.segments[i].end_time

\* a unit whose text is more than whitespace
HasSpokenUnit(sents) == \E i \in DOMAIN sents : Strip(Get(sents[i], "Text", <<>>)) # <<>>

\* C14 as stated: every payload with a non-empty Sentences list gives a
\* non-empty full_text and at least one segment.
C14_NonEmptySentencesGiveText ==
    (tpc = "done" /\ SentencesOf(data) # <<>>) =>
        /\ parsed.full_text # <<>>
        /\ parsed.segments # <<>>

\* C14 amended: every payload whose Sentences list holds at least one unit
\* with text other than whitespace gives a non-empty full_text and at least
\* one segment.
C14_SpokenSentencesGiveText ==
    (tpc = "done" /\ HasSpokenUnit(SentencesOf(data))) =>
        /\ parsed.full_text # <<>>
        /\ parsed.segments # <<>>

\* a whitespace-only unit and a spoken one gave a segment and a text
C14_Witness ==
    /\ tpc = "done"
    /\ Len(SentencesOf(data)) = 2
    /\ Strip(SentencesOf(data)[1].Text) = <<>>
    /\ Strip(SentencesOf(data)[2].Text) # <<>>
    /\ parsed.type = "sentences"
    /\ Len(parsed.segments) = 1
    /\ parsed.full_text # <<>>

\* C16: when no strategy yields non-empty text the result has an empty
\* full_text and no segments: no segment comes with an empty full_text, and
\* no segment has an empty text.
C16_NoSegmentWithoutText ==
    tpc = "done" =>
        /\ parsed.full_text = <<>> => parsed.segments = <<>>
        /\ (\A i \in DOMAIN parsed.segments : parsed.segments[i].text = <<>>) =>
                (parsed.segments = <<>> /\ parsed.full_text = <<>>)

----------------------------------------------------------------------------
(* TranscriptProcessor.process_transcript *)

\* lines 57-62: the dict the extractors read
ResultOf(raw_result_) ==
    IF "Result" \in DOMAIN raw_result_ THEN raw_result_["Result"]
    ELSE IF "Transcript" \in DOMAIN raw_result_ THEN raw_result_["Transcript"]
    ELSE raw_result_

\* re.sub(r"\s+", " ", full_text): each run of whitespace becomes one space
RECURSIVE CollapseWhitespace(_)
CollapseWhitespace(s) ==
    IF s = <<>> THEN <<>>
    ELSE LET front == CollapseWhitespace(SubSeq(s, 1, Len(s) - 1))
             c == s[Len(s)]
         IN  IF c \notin Whitespace THEN Append(front, c)
             ELSE IF Len(s) > 1 /\ s[Len(s) - 1] \in Whitespace THEN front
             ELSE Append(front, " ")

\* lines 53-91
_extract_full_text(raw_result_) ==
    LET result == ResultOf(raw_result_)
        StripText(x) == Strip(Get(x, "Text", <<>>))
        text_parts ==
            IF "Sentences" \in DOMAIN result
            THEN MapFilter(result["Sentences"], StripText, LAMBDA x : StripText(x) # <<>>)
            ELSE IF "Paragraphs" \in DOMAIN result
            THEN MapFilter(result["Paragraphs"], StripText, LAMBDA x : StripText(x) # <<>>)
            ELSE IF "Text" \in DOMAIN result THEN <<Strip(result["Text"])>>
            ELSE <<>>
    IN  Strip(CollapseWhitespace(Join(<<" ">>, text_parts)))

\* lines 108-114
SentenceSegment(sentence) ==
    [text |-> Strip(Get(sentence, "Text", <<>>)),
     start_time |-> Get(sentence, "BeginTime", 0),
     end_time |-> Get(sentence, "EndTime", 0),
     speaker_id |-> Get(sentence, "SpeakerId", 0),
     confidence |-> Get(sentence, "Confidence", 0)]

\* lines 121-127
WordsStart ==
    [segments |-> <<>>,
     current_segment |-> [text |-> <<>>, start_time |-> 0, end_time |-> 0,
                          speaker_id |-> 0, confidence |-> 0]]

\* lines 129-144: one word
WordStep(st, word) ==
    LET word_text == Strip(Get(word, "Word", <<>>))
        speaker_id == Get(word, "SpeakerId", 0)
        conf == Get(word, "Confidence", 0)
        closes == speaker_id # st.current_segment.speaker_id /\ st.current_segment.text # <<>>
        cur == IF closes
               THEN [st.current_segment EXCEPT !.text = <<>>,
                                               !.start_time = Get(word, "BeginTime", 0)]
               ELSE st.current_segment
    IN  IF word_text = <<>> THEN st
        ELSE [segments |-> IF closes THEN Append(st.segments, st.current_segment)
                           ELSE st.segments,
              current_segment |->
                [cur EXCEPT !.text = @ \o word_text \o <<" ">>,
                            !.end_time = Get(word, "EndTime", 0),
                            !.speaker_id = speaker_id,
                            !.confidence = IF conf > @ THEN conf ELSE @]]

\* lines 129-149
RECURSIVE WordsLoop(_, _)
WordsLoop(words, n) ==
    IF n = 0 THEN WordsStart ELSE WordStep(WordsLoop(words, n - 1), words[n])
WordSegments(words) ==
    LET st == WordsLoop(words, Len(words))
    IN  IF st.current_segment.text # <<>>
        THEN Append(st.segments, [st.current_segment EXCEPT !.text = Strip(@)])
        ELSE st.segments

\* a plausible slip: the segments keep their input order
SortByStartTime_Unsorted(segs) == segs

\* line 152: list.sort by start_time, which is stable
RECURSIVE SortByStartTime(_)
SortByStartTime(segs) ==
    IF segs = <<>> THEN <<>>
    ELSE LET front == SortByStartTime(SubSeq(segs, 1, Len(segs) - 1))
             x == segs[Len(segs)]
             before == SelectSeq(front, LAMBDA y : y.start_time <= x.start_time)
             after == SelectSeq(front, LAMBDA y : y.start_time > x.start_time)
         IN  before \o <<x>> \o after

\* lines 93-158
_extract_segments(raw_result_) ==
    LET result == ResultOf(raw_result_)
    IN  SortByStartTime(
            IF "Sentences" \in DOMAIN result
            THEN MapFilter(result["Sentences"], SentenceSegment,
                           LAMBDA x : SentenceSegment(x).text # <<>>)
            ELSE IF "Words" \in DOMAIN result THEN WordSegments(result["Words"])
            ELSE <<>>)

\* lines 178-183 and 190-195: the entry of one speaker
SpeakerEntry(speaker, idKey, nameKey) ==
    [id |-> Get(speaker, idKey, ""),
     name |-> Get(speaker, nameKey, <<"Speaker", Get(speaker, idKey, "")>>),
     gender |-> Get(speaker, "Gender", "unknown"),
     confidence |-> Get(speaker, "Confidence", 0)]

\* the dict the loops of lines 174-183 and 186-195 build: a later speaker
\* with the same id replaces an earlier one
SpeakersFrom(list, idKey, nameKey) ==
    [id \in {Get(list[i], idKey, "") : i \in DOMAIN list} |->
        LET last == CHOOSE i \in DOMAIN list :
                        /\ Get(list[i], idKey, "") = id
                        /\ \A j \in DOMAIN list : Get(list[j], idKey, "") = id => j <= i
        IN  SpeakerEntry(list[last], idKey, nameKey)]

\* lines 160-201
_extract_speaker_info(raw_result_) ==
    LET result == ResultOf(raw_result_)
    IN  IF "SpeakerLabels" \in DOMAIN result
        THEN SpeakersFrom(result["SpeakerLabels"], "SpeakerId", "SpeakerName")
        ELSE IF "Speakers" \in DOMAIN result
        THEN SpeakersFrom(result["Speakers"], "Id", "Name")
        ELSE <<>>

\* lines 218-224
ChapterInfo(chapter) ==
    [title |-> Strip(Get(chapter, "Title", <<>>)),
     summary |-> Strip(Get(chapter, "Summary", <<>>)),
     start_time |-> Get(chapter, "StartTime", 0),
     end_time |-> Get(chapter, "EndTime", 0),
     confidence |-> Get(chapter, "Confidence", 0)]

\* lines 203-233
_extract_chapters(raw_result_) ==
    LET result == ResultOf(raw_result_)
    IN  IF "Chapters" \in DOMAIN result
        THEN MapFilter(result["Chapters"], ChapterInfo, LAMBDA c : ChapterInfo(c).title # <<>>)
        ELSE <<>>

\* lines 235-257
_extract_summary(raw_result_) ==
    LET result == ResultOf(raw_result_)
    IN  IF "Summary" \in DOMAIN result THEN Strip(result["Summary"])
        ELSE IF "Abstract" \in DOMAIN result THEN Strip(result["Abstract"])
        ELSE <<>>

\* lines 259-296
_extract_metadata(raw_result_) ==
    LET result == ResultOf(raw_result_)
    IN  [task_id |-> Get(raw_result_, "TaskId", ""),
         status |-> Get(raw_result_, "Status", ""),
         duration |-> IF "Duration" \in DOMAIN result THEN result["Duration"]
                      ELSE IF "AudioDuration" \in DOMAIN result THEN result["AudioDuration"]
                      ELSE 0,
         word_count |-> Get(result, "WordCount", 0),
         language |-> Get(result, "Language", "zh-CN")]

\* lines 29-39
process_transcript(raw_result_) ==
    [text |-> _extract_full_text(raw_result_),
     segments |-> _extract_segments(raw_result_),
     speakers |-> _extract_speaker_info(raw_result_),
     chapters |-> _extract_chapters(raw_result_),
     summary |-> _extract_summary(raw_result_),
     metadata |-> _extract_metadata(raw_result_)]

----------------------------------------------------------------------------
(* SpecProcess: one call of process_transcript on any payload *)

MaxProcessUnits == 3

\* sentence units: a blank text, a plain one, one with a run of whitespace
\* inside and around it; begin times in any order
ProcessTexts == {<<" ">>, <<"A">>, <<" ", "B", " ", "\t", "C">>}
ProcessUnits ==
    {[Text |-> t, BeginTime |-> b, EndTime |-> b + 1, SpeakerId |-> "S1"] :
        t \in ProcessTexts, b \in {0, 1}}
ProcessWords ==
    {<<[Word |-> <<"w">>, SpeakerId |-> 1, BeginTime |-> 1, EndTime |-> 2],
       [Word |-> <<"v", " ">>, SpeakerId |-> 0, BeginTime |-> 0, EndTime |-> 1]>>}
ProcessParagraphs == {<<[Text |-> <<"P", " ">>], [Text |-> <<" ">>]>>}
ProcessResults ==
    {[k \in KeyIf("Sentences", ss) \cup KeyIf("Paragraphs", ps) \cup KeyIf("Text", tx)
            \cup KeyIf("Words", ws) \cup KeyIf("Summary", sm) |->
        CASE k = "Sentences" -> ss[1] [] k = "Paragraphs" -> ps[1] [] k = "Text" -> tx[1]
          [] k = "Words" -> ws[1] [] k = "Summary" -> sm[1]] :
        ss \in Optional(SeqUpTo(ProcessUnits, MaxProcessUnits)),
        ps \in Optional(ProcessParagraphs),
        tx \in Optional({<<" ", "T", "\n", "\n", "U">>}),
        ws \in Optional(ProcessWords),
        sm \in Optional({<<"S", " ">>})}
ProcessPayloads ==
    ProcessResults
    \cup {[Result |-> r] : r \in ProcessResults}
    \cup {[Transcript |-> r, TaskId |-> "t1"] : r \in ProcessResults}

ProcessInit ==
    /\ raw_result \in ProcessPayloads
    /\ processed = <<>>
    /\ ppc = "call"
    /\ MergeIdle /\ TingwuIdle /\ CleanIdle /\ AnalyzeIdle /\ OtherIdle

ProcessCall ==
    /\ ppc = "call"
    /\ processed' = process_transcript(raw_result)
    /\ ppc' = "done"
    /\ UNCHANGED <<raw_result, mergeVars, tingwuVars, cleanVars, analyzeVars, otherVars>>

ProcessNext == ProcessCall

SpecProcess == ProcessInit /\ [][ProcessNext]_vars

----------------------------------------------------------------------------
(* Claims about process_transcript *)

SentencesShaped == "Sentences" \in DOMAIN ResultOf(raw_result)

SortedByStartTime(segs) ==
    \A i, j \in DOMAIN segs : i < j => segs[i].start_time <= segs[j].start_time

\* the segment texts in their output order, joined with single spaces
JoinedSegmentTexts ==
    Join(<<" ">>, [k \in DOMAIN processed.segments |-> processed.segments[k].text])

\* the units come in non-decreasing order of BeginTime
UnitsInTimeOrder ==
    LET sents == ResultOf(raw_result)["Sentences"]
    IN  \A i, j \in DOMAIN sents : i < j => sents[i].BeginTime <= sents[j].BeginTime

\* C15 as stated: for every Sentences-shaped payload the segments are ordered
\* non-decreasing by start_time and joining the segment texts in their output
\* order yields exactly the returned text.
C15_SortedAndJoinIsText ==
    (ppc = "done" /\ SentencesShaped) =>
        /\ SortedByStartTime(processed.segments)
        /\ JoinedSegmentTexts = processed.text

\* C15 amended: for every Sentences-shaped payload the segments are ordered
\* non-decreasing by start_time; when the units come in non-decreasing order
\* of BeginTime, joining the segment texts in their output order with single
\* spaces and collapsing every run of whitespace to one space yields exactly
\* the returned text.
C15_SortedAndNormalisedJoinIsText ==
    (ppc = "done" /\ SentencesShaped) =>
        /\ SortedByStartTime(processed.segments)
        /\ UnitsInTimeOrder =>
                Strip(CollapseWhitespace(JoinedSegmentTexts)) = processed.text

\* units in time order gave two segments or more, one with a run of
\* whitespace inside its text, and the text is their normalised join
C15_Witness ==
    /\ ppc = "done"
    /\ SentencesShaped
    /\ UnitsInTimeOrder
    /\ Len(processed.segments) >= 2
    /\ processed.segments[1].start_time < processed.segments[Len(processed.segments)].start_time
    /\ JoinedSegmentTexts # processed.text
    /\ Strip(CollapseWhitespace(JoinedSegmentTexts)) = processed.text

----------------------------------------------------------------------------
(* SpecExtract: one call of _extract_json_substring on any content *)

MaxScanLen == 5

\* brackets of both kinds, the quote, the backslash and an ordinary character
ScanAlphabet == {"[", "]", "{", "}", "\"", "\\", "x"}
ScanTexts == SeqUpTo(ScanAlphabet, MaxScanLen)

ExtractInit ==
    /\ content \in ScanTexts
    /\ extracted = NotFound
    /\ raw = <<>> /\ tried = <<>> /\ cresult = None /\ cfrom = "none"
    /\ cpc = "scan"
    /\ MergeIdle /\ TingwuIdle /\ AnalyzeIdle /\ ProcessIdle /\ OtherIdle

ExtractCall ==
    /\ cpc = "scan"
    /\ extracted' = _extract_json_substring(content)
    /\ cpc' = "scanned"
    /\ UNCHANGED <<raw, content, tried, cresult, cfrom>>
    /\ UNCHANGED <<mergeVars, tingwuVars, analyzeVars, processVars, otherVars>>

ExtractNext == ExtractCall

SpecExtract == ExtractInit /\ [][ExtractNext]_vars

----------------------------------------------------------------------------
(* Claims about _extract_json_substring *)

OpeningBrackets == {"{", "["}
ClosingBrackets == {"}", "]"}
ClosingOf(c) == IF c = "{" THEN "}" ELSE "]"

\* the position of the first opening bracket of the content, 0 if none
RegionStart == IF \E i \in DOMAIN content : content[i] \in OpeningBrackets
               THEN CHOOSE i \in DOMAIN content :
                        /\ content[i] \in OpeningBrackets
                        /\ \A j \in 1..(i - 1) : content[j] \notin OpeningBrackets
               ELSE 0

\* whether position i of text s lies inside a double-quoted string literal
\* that opened at or after position from; a quote after a backslash does not
\* end the literal.  Q[i] is the state before the character at i.
InLiteral(s, from, i) ==
    LET Q[k \in from..(Len(s) + 1)] ==
            IF k = from THEN [in |-> FALSE, esc |-> FALSE]
            ELSE LET q == Q[k - 1]
                     c == s[k - 1]
                 IN  IF q.in
                     THEN IF q.esc THEN [in |-> TRUE, esc |-> FALSE]
                          ELSE IF c = "\\" THEN [in |-> TRUE, esc |-> TRUE]
                          ELSE IF c = "\"" THEN [in |-> FALSE, esc |-> FALSE]
                          ELSE q
                     ELSE IF c = "\"" THEN [in |-> TRUE, esc |-> FALSE] ELSE q
    IN  Q[i].in

\* the brackets open after position i of s, counting only the brackets
\* outside string literals; a closing bracket takes the top one off
OpenAfter(s, from, i) ==
    LET S[k \in (from - 1)..Len(s)] ==
            IF k = from - 1 THEN <<>>
            ELSE IF InLiteral(s, from, k) THEN S[k - 1]
            ELSE IF s[k] \in OpeningBrackets THEN Append(S[k - 1], s[k])
            ELSE IF s[k] \in ClosingBrackets /\ S[k - 1] # <<>>
                 THEN SubSeq(S[k - 1], 1, Len(S[k - 1]) - 1)
            ELSE S[k - 1]
    IN  S[i]

\* at position i a closing bracket outside a literal meets a bracket of the
\* other type on top of the stack / empties the stack with a matching bracket
TopBefore(s, from, i) == OpenAfter(s, from, i - 1)[Len(OpenAfter(s, from, i - 1))]
ClosesAt(s, from, i) ==
    /\ ~InLiteral(s, from, i) /\ s[i] \in ClosingBrackets
    /\ OpenAfter(s, from, i - 1) # <<>>
MismatchAt(s, from, i) ==
    ClosesAt(s, from, i) /\ s[i] # ClosingOf(TopBefore(s, from, i))
BalancedAt(s, from, i) ==
    /\ ClosesAt(s, from, i) /\ s[i] = ClosingOf(TopBefore(s, from, i))
    /\ Len(OpenAfter(s, from, i - 1)) = 1

\* the first position at which the scan ends, 0 if it runs to the end
ScanEnd(s, from) ==
    LET ends == {i \in from..Len(s) : MismatchAt(s, from, i) \/ BalancedAt(s, from, i)}
    IN  IF ends = {} THEN 0 ELSE CHOOSE i \in ends : \A j \in ends : i <= j

\* C17: the function returns the text from the first opening bracket through
\* the first position at which the stack becomes empty on a matching closing
\* bracket, and None exactly when there is no opening bracket, the content
\* ends with the stack non-empty, or a closing bracket outside a string has
\* not the type of the bracket on top of the stack.
C17_RegionIsFirstBalancedSpan ==
    cpc = "scanned" =>
        LET end == ScanEnd(content, RegionStart)
        IN  IF RegionStart = 0 THEN ~extracted.found
            ELSE IF end = 0 THEN ~extracted.found /\ OpenAfter(content, RegionStart, Len(content)) # <<>>
            ELSE IF MismatchAt(content, RegionStart, end) THEN ~extracted.found
            ELSE extracted.found /\ extracted.text = SubSeq(content, RegionStart, end)

\* a region was found after some prose and before further brackets
C17_Witness ==
    /\ cpc = "scanned"
    /\ extracted.found
    /\ RegionStart > 1
    /\ \E i \in (RegionStart + Len(extracted.text))..Len(content) :
            content[i] \in OpeningBrackets

\* the content with every bracket that lies inside a string literal of the
\* scanned region replaced by an ordinary character
Masked(s, from) ==
    [i \in DOMAIN s |->
        IF from > 0 /\ i > from /\ InLiteral(s, from, i)
           /\ s[i] \in OpeningBrackets \cup ClosingBrackets
        THEN "x" ELSE s[i]]

\* C18: brackets inside a string literal of the scanned region never push or
\* pop the stack: the region returned is the one returned for the content in
\* which those brackets are ordinary characters (None for both, or the same
\* span of positions).
C18_BracketsInLiteralsIgnored ==
    cpc = "scanned" =>
        LET masked == Masked(content, RegionStart)
            other == _extract_json_substring(masked)
        IN  /\ other.found = extracted.found
            /\ extracted.found =>
                /\ Len(other.text) = Len(extracted.text)
                /\ other.text = SubSeq(masked, RegionStart,
                                       RegionStart + Len(extracted.text) - 1)

\* a region was found that holds a bracket inside a string literal
C18_Witness ==
    /\ cpc = "scanned"
    /\ extracted.found
    /\ Masked(content, RegionStart) # content
    /\ \E i \in (RegionStart + 1)..(RegionStart + Len(extracted.text) - 1) :
            Masked(content, RegionStart)[i] # content[i]

----------------------------------------------------------------------------
(* Claims about the repairs of _clean_and_parse_json *)

\* raw is ```json, a newline, a body, a newline, ```
FencedOpen == FenceJson \o <<"\n">>
FencedClose == <<"\n">> \o Fence
IsFenced(s) ==
    /\ Len(s) >= Len(FencedOpen) + Len(FencedClose)
    /\ SubSeq(s, 1, Len(FencedOpen)) = FencedOpen
    /\ SubSeq(s, Len(s) - Len(FencedClose) + 1, Len(s)) = FencedClose
FencedBody(s) == SubSeq(s, Len(FencedOpen) + 1, Len(s) - Len(FencedClose))

\* s without its character at i
Without(s, i) == SubSeq(s, 1, i - 1) \o SubSeq(s, i + 1, Len(s))

\* the comma at i, immediately before a closing bracket, is the only defect
\* of s: s does not parse, and s without it parses
OnlyDefectAt(s, i) ==
    /\ i \in 1..(Len(s) - 1)
    /\ s[i] = ","
    /\ s[i + 1] \in {"}", "]"}
    /\ ~json_loads(s).ok
    /\ json_loads(Without(s, i)).ok

\* C19: for fenced input whose JSON has a trailing comma immediately before
\* "}" or "]" as its only defect, the value returned is the value of that JSON
\* with the comma removed.
C19_TrailingCommaRemoved ==
    (cpc = "done" /\ IsFenced(raw)) =>
        \A i \in DOMAIN FencedBody(raw) :
            OnlyDefectAt(FencedBody(raw), i) =>
                /\ cfrom = "parse"
                /\ cresult = json_loads(Without(FencedBody(raw), i)).val

\* the fenced inputs for which the statement of C19 does hold
C19_RepairedAtStage3 ==
    /\ cpc = "done"
    /\ IsFenced(raw)
    /\ tried = <<1, 2, 3>>
    /\ \E i \in DOMAIN FencedBody(raw) :
            /\ OnlyDefectAt(FencedBody(raw), i)
            /\ cresult = json_loads(Without(FencedBody(raw), i)).val

\* the last bracket of s, 0 if there is none
LastBracket(s) ==
    LET B == {k \in DOMAIN s : s[k] \in {"{", "[", "}", "]"}}
    IN  IF B = {} THEN 0 ELSE CHOOSE k \in B : \A l \in B : l <= k

\* the text between the first and the last bracket of s: when s is a JSON
\* object or array inside prose without brackets, it is that object or array
EmbeddedValue(s) == SubSeq(s, FirstBracket(s, 1), LastBracket(s))

\* s is a valid JSON object or array inside prose that has no bracket
IsEmbedded(s) ==
    /\ FirstBracket(s, 1) # 0
    /\ json_loads(EmbeddedValue(s)).ok
    /\ FirstBracket(s, 1) > 1 \/ LastBracket(s) < Len(s)

\* C20: when a valid JSON object or array is embedded in prose that has no
\* bracket, the value returned is the parse of the embedded value.
C20_EmbeddedValueParsed ==
    (cpc = "done" /\ IsEmbedded(raw)) =>
        /\ cfrom = "parse"
        /\ cresult = json_loads(EmbeddedValue(raw)).val

\* an embedded value returned as the statement of C20 says, from the region
C20_ParsedFromRegion ==
    /\ cpc = "done"
    /\ IsEmbedded(raw)
    /\ tried = <<1, 2>>
    /\ cresult = json_loads(EmbeddedValue(raw)).val

----------------------------------------------------------------------------
(* Claims about the ErrorEnvelope of _clean_and_parse_json *)

\* no opening bracket of s starts a balanced region
NoBalancedRegion(s) ==
    \A i \in DOMAIN s :
        s[i] \in {"{", "["} =>
            ~ExtractScan(s, i, IF s[i] = "{" THEN "}" ELSE "]", i, <<>>, FALSE, FALSE).found

\* C21: for every input without a balanced bracket region anywhere the value
\* returned is an ErrorEnvelope whose raw_content_truncated and parse_error
\* are both non-empty.
C21_NoRegionGivesFilledEnvelope ==
    (cpc = "done" /\ NoBalancedRegion(raw)) =>
        /\ cfrom = "envelope"
        /\ cresult.val.raw_content_truncated # <<>>
        /\ cresult.val.parse_error # ""

\* an input without a region for which the statement of C21 does hold
C21_FilledEnvelope ==
    /\ cpc = "done"
    /\ NoBalancedRegion(raw)
    /\ cfrom = "envelope"
    /\ cresult.val.raw_content_truncated # <<>>
    /\ cresult.val.parse_error # ""

\* C22: in every ErrorEnvelope returned, raw_content_truncated is the whole
\* cleaned content when that has at most 1600 characters, and otherwise its
\* first 800 characters, the elision marker and its last 800 characters; it
\* is never longer than 1600 characters plus the marker.
C22_EnvelopeContentTruncated ==
    (cpc = "done" /\ cfrom = "envelope") =>
        LET shown == cresult.val.raw_content_truncated
            n == Len(content)
        IN  /\ n <= 1600 => shown = content
            /\ n > 1600 =>
                shown = SubSeq(content, 1, 800) \o <<"\n", ".", ".", ".", "\n">>
                            \o SubSeq(content, n - 799, n)
            /\ Len(shown) <= 1600 + 5

\* an envelope for a content of more than 1601 characters: head and tail
\* leave something out
C22_Witness ==
    /\ cpc = "done"
    /\ cfrom = "envelope"
    /\ Len(content) > 1601
    /\ Len(cresult.val.raw_content_truncated) = 1605

----------------------------------------------------------------------------
(* TranscriptProcessor.process_transcript on payloads of any type: the
   try/except of every extractor.  A Python value carries its type. *)

PyNone == [t |-> "NoneType"]
PyInt(n) == [t |-> "int", v |-> n]
PyStr(s) == [t |-> "str", v |-> s]
PyList(l) == [t |-> "list", v |-> l]
PyDict(d) == [t |-> "dict", v |-> d]

\* the value without its types, as the extractors of the sections above read it
RECURSIVE Untag(_)
Untag(x) ==
    CASE x.t = "dict" -> [k \in DOMAIN x.v |-> Untag(x.v[k])]
      [] x.t = "list" -> [i \in DOMAIN x.v |-> Untag(x.v[i])]
      [] x.t \in {"str", "int"} -> x.v
      [] OTHER -> x

\* what a function body gives: a value, or an exception
Returned(v) == [raised |-> FALSE, val |-> v]
Raise == [raised |-> TRUE]

\* a plausible slip: the extractor has no handler
Caught_Reraise(outcome, default) == outcome

\* except Exception: log and return the default (lines 89-91, 156-158,
\* 199-201, 231-233, 255-257, 294-296)
Caught(outcome, default) == IF outcome.raised THEN Returned(default) ELSE outcome

\* key in x raises TypeError for a value that is no container
InRaises(x) == x.t \in {"NoneType", "int"}

\* lines 57-62: result, for a dict
TResultOf(p) ==
    IF "Result" \in DOMAIN p.v THEN p.v["Result"]
    ELSE IF "Transcript" \in DOMAIN p.v THEN p.v["Transcript"]
    ELSE p

\* lines 57-62 raise
ResultRaises(p) == InRaises(p) \/ (p.t = "dict" /\ InRaises(TResultOf(p)))

\* no key is found in result: it is a str or a list (none of those modelled
\* holds the name of a key)
Keyless(p) == p.t # "dict" \/ TResultOf(p).t # "dict"
HasK(p, key) == ~Keyless(p) /\ key \in DOMAIN TResultOf(p).v
ValueAt(p, key) == TResultOf(p).v[key]

\* for item in x: ... item.get(...) raises: x is not iterable, or an item
\* is not a dict (the items of a str are str, those of a dict its keys), or
\* the body raises for an item
IterRaises(x, ItemRaises(_)) ==
    CASE x.t \in {"NoneType", "int"} -> TRUE
      [] x.t = "str" -> x.v # <<>>
      [] x.t = "dict" -> DOMAIN x.v # {}
      [] x.t = "list" -> \E i \in DOMAIN x.v : x.v[i].t # "dict" \/ ItemRaises(x.v[i])

\* item.get(key, "").strip() raises for a value that is no str
StripRaises(item, key) == key \in DOMAIN item.v /\ item.v[key].t # "str"

\* the payload as the extractors read it when nothing raised
View(p) ==
    IF p.t # "dict" THEN <<>>
    ELSE IF TResultOf(p).t = "dict" THEN Untag(p)
    ELSE IF "Result" \in DOMAIN p.v THEN [Untag(p) EXCEPT !["Result"] = <<>>]
    ELSE [Untag(p) EXCEPT !["Transcript"] = <<>>]

\* lines 53-91
FullTextRaises(p) ==
    \/ ResultRaises(p)
    \/ IF HasK(p, "Sentences")
       THEN IterRaises(ValueAt(p, "Sentences"), LAMBDA u : StripRaises(u, "Text"))
       ELSE IF HasK(p, "Paragraphs")
       THEN IterRaises(ValueAt(p, "Paragraphs"), LAMBDA u : StripRaises(u, "Text"))
       ELSE HasK(p, "Text") /\ ValueAt(p, "Text").t # "str"
TryFullText(p) ==
    Caught(IF FullTextRaises(p) THEN Raise ELSE Returned(_extract_full_text(View(p))), <<>>)

\* line 152: the sort compares start times once two segments or more are
\* kept; a start time that is no number cannot be compared
SortRaises(x) ==
    LET kept == {i \in DOMAIN x.v : Strip(Get(x.v[i].v, "Text", PyStr(<<>>)).v) # <<>>}
    IN  /\ Cardinality(kept) >= 2
        /\ \E i \in kept : Get(x.v[i].v, "BeginTime", PyInt(0)).t # "int"

\* lines 93-158
SegmentsRaises(p) ==
    \/ ResultRaises(p)
    \/ IF HasK(p, "Sentences")
       THEN \/ IterRaises(ValueAt(p, "Sentences"), LAMBDA u : StripRaises(u, "Text"))
            \/ SortRaises(ValueAt(p, "Sentences"))
       ELSE /\ HasK(p, "Words")
            /\ IterRaises(ValueAt(p, "Words"), LAMBDA w : StripRaises(w, "Word"))
TrySegments(p) ==
    Caught(IF SegmentsRaises(p) THEN Raise ELSE Returned(_extract_segments(View(p))), <<>>)

\* lines 160-201
SpeakersRaises(p) ==
    \/ ResultRaises(p)
    \/ IF HasK(p, "SpeakerLabels")
       THEN IterRaises(ValueAt(p, "SpeakerLabels"), LAMBDA sp : FALSE)
       ELSE HasK(p, "Speakers") /\ IterRaises(ValueAt(p, "Speakers"), LAMBDA sp : FALSE)
TrySpeakers(p) ==
    Caught(IF SpeakersRaises(p) THEN Raise ELSE Returned(_extract_speaker_info(View(p))), <<>>)

\* lines 203-233
ChaptersRaises(p) ==
    \/ ResultRaises(p)
    \/ /\ HasK(p, "Chapters")
       /\ IterRaises(ValueAt(p, "Chapters"),
                     LAMBDA c : StripRaises(c, "Title") \/ StripRaises(c, "Summary"))
TryChapters(p) ==
    Caught(IF ChaptersRaises(p) THEN Raise ELSE Returned(_extract_chapters(View(p))), <<>>)

\* lines 235-257
SummaryRaises(p) ==
    \/ ResultRaises(p)
    \/ IF HasK(p, "Summary") THEN ValueAt(p, "Summary").t # "str"
       ELSE HasK(p, "Abstract") /\ ValueAt(p, "Abstract").t # "str"
TrySummary(p) ==
    Caught(IF SummaryRaises(p) THEN Raise ELSE Returned(_extract_summary(View(p))), <<>>)

\* lines 259-296: raw_result.get raises for every value that is no dict
MetadataRaises(p) == p.t # "dict" \/ InRaises(TResultOf(p))
TryMetadata(p) ==
    Caught(IF MetadataRaises(p) THEN Raise ELSE Returned(_extract_metadata(View(p))), <<>>)

\* lines 41-51
ProcessFailed ==
    [text |-> <<>>, segments |-> <<>>, speakers |-> <<>>, chapters |-> <<>>,
     summary |-> <<>>, metadata |-> <<>>, error |-> "str(e)"]

\* lines 28-51
TryProcess(p) ==
    LET parts == [text |-> TryFullText(p), segments |-> TrySegments(p),
                  speakers |-> TrySpeakers(p), chapters |-> TryChapters(p),
                  summary |-> TrySummary(p), metadata |-> TryMetadata(p)]
    IN  IF \E k \in DOMAIN parts : parts[k].raised THEN ProcessFailed
        ELSE [k \in DOMAIN parts |-> parts[k].val]

----------------------------------------------------------------------------
(* SpecRobust: one call of process_transcript on any payload, well-formed or
   not.  A payload is built from the name of a choice for each of its parts. *)

\* a sentence with the text and the begin time given
UnitOf(text, time) == PyDict([Text |-> PyStr(text), BeginTime |-> time])

SentencesChoices ==
    {"absent", "None", "str", "empty", "one", "blank", "textNone", "twoTimes",
     "twoTimeNone", "oneTimeNone", "itemNone", "noText"}
SentencesValue(choice) ==
    CASE choice = "None" -> PyNone
      [] choice = "str" -> PyStr(<<"a", "b">>)
      [] choice = "empty" -> PyList(<<>>)
      [] choice = "one" -> PyList(<<UnitOf(<<"A">>, PyInt(1))>>)
      [] choice = "blank" -> PyList(<<UnitOf(<<"A">>, PyInt(1)), UnitOf(<<" ">>, PyInt(0))>>)
      [] choice = "textNone" -> PyList(<<UnitOf(<<"A">>, PyInt(1)), PyDict([Text |-> PyNone])>>)
      [] choice = "twoTimes" -> PyList(<<UnitOf(<<"A">>, PyInt(1)), UnitOf(<<"B", " ">>, PyInt(0))>>)
      [] choice = "twoTimeNone" -> PyList(<<UnitOf(<<"A">>, PyInt(1)), UnitOf(<<"B">>, PyNone)>>)
      [] choice = "oneTimeNone" -> PyList(<<UnitOf(<<"B">>, PyNone)>>)
      [] choice = "itemNone" -> PyList(<<PyNone>>)
      [] choice = "noText" -> PyList(<<PyDict([BeginTime |-> PyInt(0)])>>)

\* the other sources of text and segments: one key at most
ShapeChoices ==
    {"absent", "Paragraphs", "ParagraphTextInt", "Text", "TextNone", "Words", "WordsNone"}
ShapeKey(choice) ==
    CASE choice \in {"Paragraphs", "ParagraphTextInt"} -> {"Paragraphs"}
      [] choice \in {"Text", "TextNone"} -> {"Text"}
      [] choice \in {"Words", "WordsNone"} -> {"Words"}
      [] OTHER -> {}
ShapeValue(choice) ==
    CASE choice = "Paragraphs" -> PyList(<<PyDict([Text |-> PyStr(<<"P", " ">>)])>>)
      [] choice = "ParagraphTextInt" -> PyList(<<PyDict([Text |-> PyInt(7)])>>)
      [] choice = "Text" -> PyStr(<<" ", "T", "\n", "U">>)
      [] choice = "TextNone" -> PyNone
      [] choice = "Words" ->
            PyList(<<PyDict([Word |-> PyStr(<<"w">>), SpeakerId |-> PyInt(1),
                             BeginTime |-> PyInt(1), EndTime |-> PyInt(2)]),
                     PyDict([Word |-> PyStr(<<"v", " ">>), SpeakerId |-> PyInt(0),
                             BeginTime |-> PyInt(0), EndTime |-> PyInt(1)])>>)
      [] choice = "WordsNone" -> PyNone

SummaryChoices == {"absent", "Summary", "SummaryNone", "Abstract"}
SummaryKey(choice) ==
    CASE choice \in {"Summary", "SummaryNone"} -> {"Summary"}
      [] choice = "Abstract" -> {"Abstract"}
      [] OTHER -> {}
SummaryValue(choice) ==
    CASE choice = "SummaryNone" -> PyNone
      [] choice = "Summary" -> PyStr(<<"S", " ">>)
      [] choice = "Abstract" -> PyStr(<<"Z">>)

ChaptersChoices == {"absent", "Chapters", "ChapterTitleNone", "ChaptersInt"}
ChaptersValue(choice) ==
    CASE choice = "Chapters" ->
            PyList(<<PyDict([Title |-> PyStr(<<" ", "C">>), StartTime |-> PyInt(3)]),
                     PyDict([Summary |-> PyStr(<<"x">>)])>>)
      [] choice = "ChapterTitleNone" -> PyList(<<PyDict([Title |-> PyNone])>>)
      [] choice = "ChaptersInt" -> PyInt(7)

SpeakersChoices == {"absent", "SpeakerLabels", "SpeakerItemStr", "Speakers"}
SpeakersKey(choice) ==
    CASE choice \in {"SpeakerLabels", "SpeakerItemStr"} -> {"SpeakerLabels"}
      [] choice = "Speakers" -> {"Speakers"}
      [] OTHER -> {}
SpeakersValue(choice) ==
    CASE choice = "SpeakerLabels" ->
            PyList(<<PyDict([SpeakerId |-> PyStr("1"), SpeakerName |-> PyStr(<<"N">>)])>>)
      [] choice = "SpeakerItemStr" -> PyList(<<PyStr(<<"s">>)>>)
      [] choice = "Speakers" ->
            PyList(<<PyDict([Id |-> PyStr("2"), Name |-> PyStr(<<"M">>),
                             Gender |-> PyStr("f")])>>)

DurationChoices == {"absent", "Duration", "AudioDuration"}

\* the dict the extractors read
ResultBuilt(c) ==
    PyDict([k \in (IF c.sentences # "absent" THEN {"Sentences"} ELSE {})
                    \cup ShapeKey(c.shape) \cup SummaryKey(c.summary)
                    \cup (IF c.chapters # "absent" THEN {"Chapters"} ELSE {})
                    \cup SpeakersKey(c.speakers)
                    \cup (IF c.duration # "absent" THEN {c.duration} ELSE {}) |->
        CASE k = "Sentences" -> SentencesValue(c.sentences)
          [] k \in {"Paragraphs", "Text", "Words"} -> ShapeValue(c.shape)
          [] k \in {"Summary", "Abstract"} -> SummaryValue(c.summary)
          [] k = "Chapters" -> ChaptersValue(c.chapters)
          [] k \in {"SpeakerLabels", "Speakers"} -> SpeakersValue(c.speakers)
          [] k \in {"Duration", "AudioDuration"} -> PyInt(5)])

\* the payload: the dict itself, the dict under Result or Transcript, or a
\* value of another type in the place of either
DictTops == {"plain", "Result", "Transcript"}
OtherTops == {"None", "int", "str", "list", "ResultNone", "ResultStr"}
PayloadBuilt(c) ==
    CASE c.top = "plain" -> ResultBuilt(c)
      [] c.top = "Result" -> PyDict([Result |-> ResultBuilt(c)])
      [] c.top = "Transcript" -> PyDict([Transcript |-> ResultBuilt(c), TaskId |-> PyStr("t1")])
      [] c.top = "None" -> PyNone
      [] c.top = "int" -> PyInt(7)
      [] c.top = "str" -> PyStr(<<"x">>)
      [] c.top = "list" -> PyList(<<>>)
      [] c.top = "ResultNone" -> PyDict([Result |-> PyNone, TaskId |-> PyStr("t1")])
      [] c.top = "ResultStr" -> PyDict([Result |-> PyStr(<<"x">>), TaskId |-> PyStr("t1")])

RobustChoices ==
    {[top |-> top, sentences |-> se, shape |-> sh, summary |-> su, chapters |-> ch,
      speakers |-> sp, duration |-> du] :
        top \in DictTops, se \in SentencesChoices, sh \in ShapeChoices,
        su \in SummaryChoices, ch \in ChaptersChoices, sp \in SpeakersChoices,
        du \in DurationChoices}
    \cup {[top |-> top, sentences |-> "absent", shape |-> "absent", summary |-> "absent",
           chapters |-> "absent", speakers |-> "absent", duration |-> "absent"] :
            top \in OtherTops}

RobustInit ==
    /\ \E c \in RobustChoices : raw_result = PayloadBuilt(c)
    /\ processed = <<>>
    /\ ppc = "call"
    /\ MergeIdle /\ TingwuIdle /\ CleanIdle /\ AnalyzeIdle /\ OtherIdle

RobustCall ==
    /\ ppc = "call"
    /\ processed' = TryProcess(raw_result)
    /\ ppc' = "done"
    /\ UNCHANGED <<raw_result, mergeVars, tingwuVars, cleanVars, analyzeVars, otherVars>>

RobustNext == RobustCall

SpecRobust == RobustInit /\ [][RobustNext]_vars

----------------------------------------------------------------------------
(* Claims about process_transcript on payloads of any type *)

\* the recognised keys the payload holds where the extractors look for them
KeysFound == IF Keyless(raw_result) THEN {} ELSE DOMAIN TResultOf(raw_result).v

----------------------------------------------------------------------------
(* SpecBlank: a call of _merge_sentences_by_speaker, then a second call on
   the same units with a blank unit put between two of them *)

MaxRunUnits == 3

\* units that differ in text and speaker only
RunUnits == {u \in WellTimedUnits : u.BeginTime = 0 /\ u.EndTime = 1}

\* units whose text is empty or whitespace-only, with any speaker and time
BlankUnits ==
    {[Text |-> t, SpeakerId |-> sp, BeginTime |-> b, EndTime |-> 1] :
        t \in {<<>>, <<" ">>}, sp \in Speakers, b \in Times}

\* sents with unit put after its first k units
InsertAfter(sents, k, unit) ==
    SubSeq(sents, 1, k) \o <<unit>> \o SubSeq(sents, k + 1, Len(sents))

BlankInit ==
    /\ sentences \in SeqUpTo(RunUnits, MaxRunUnits)
    /\ segments = <<>>
    /\ merged = <<>>
    /\ mpc = "call"
    /\ TingwuIdle /\ CleanIdle /\ AnalyzeIdle /\ ProcessIdle /\ OtherIdle

\* the second call
InsertBlankCall ==
    /\ mpc = "done"
    /\ \E k \in 1..(Len(sentences) - 1) : \E unit \in BlankUnits :
        /\ sentences' = InsertAfter(sentences, k, unit)
        /\ segments' = MergeRun(InsertAfter(sentences, k, unit)).segments
        /\ merged' = MergeRun(InsertAfter(sentences, k, unit)).merged
    /\ mpc' = "again"
    /\ UNCHANGED <<tingwuVars, cleanVars, analyzeVars, processVars, otherVars>>

BlankNext == MergeCall \/ InsertBlankCall

SpecBlank == BlankInit /\ [][BlankNext]_vars

----------------------------------------------------------------------------
(* Claims about blank units in _merge_sentences_by_speaker *)

\* the text and the speaker id of every segment, in order
TextsAndSpeakers(segs) ==
    [i \in DOMAIN segs |-> <<segs[i].text, segs[i].speaker_id>>]

\* C24: putting a unit whose text is empty or whitespace-only, with any
\* speaker id, between two units of the input leaves the number of
\* segments, their texts and their speaker ids unchanged.
C24_BlankUnitChangesNothing ==
    [][(mpc = "done" /\ mpc' = "again") =>
            TextsAndSpeakers(segments') = TextsAndSpeakers(segments)]_vars

\* the blank unit stands between two spoken units of one speaker and names
\* another speaker; the two are still one segment
C24_Witness ==
    /\ mpc = "again"
    /\ Len(segments) = 1
    /\ \E k \in 2..(Len(sentences) - 1) :
        /\ Strip(sentences[k].Text) = <<>>
        /\ Strip(sentences[k - 1].Text) # <<>>
        /\ Strip(sentences[k + 1].Text) # <<>>
        /\ sentences[k - 1].SpeakerId = sentences[k + 1].SpeakerId
        /\ sentences[k].SpeakerId \notin {"", sentences[k - 1].SpeakerId}

----------------------------------------------------------------------------
(* QwenClient.generate_json under with_retry *)

\* _clean_and_parse_json as one function: the value of the first stage that
\* parses, else the error envelope (lines 139-179)
CleanValue(text) ==
    LET cleaned == StripFences(text)
        region == _extract_json_substring(cleaned)
    IN  IF json_loads(cleaned).ok THEN json_loads(cleaned).val
        ELSE IF ExtractedTruthy(region) /\ json_loads(region.text).ok
             THEN json_loads(region.text).val
        ELSE IF ExtractedTruthy(region) /\ json_loads(Repair(region.text)).ok
             THEN json_loads(Repair(region.text)).val
        ELSE IF json_loads(Repair(cleaned)).ok THEN json_loads(Repair(cleaned)).val
        ELSE [kind |-> "object",
              val |-> ErrorEnvelope(_truncate(cleaned, TruncHead, TruncTail),
                                    json_loads(Repair(cleaned)).msg)]

\* with_retry(max_attempts=3, ...) at line 77
MaxAttempts == 3

\* what Generation.call gives on one request (line 113):
\*   "exception"  the call raises
\*   "status"     a response whose status_code is not 200
\*   "text"       status 200 and a text as content
\*   "deep"       status 200 and a text whose brackets are nested deeper than
\*                the interpreter's recursion limit
\*   "nocontent"  status 200 and None as content
ReplyKinds == {"exception", "status", "text", "deep", "nocontent"}
ReplyTexts ==
    {<<"{", "\"", "a", "\"", ":", "1", "}">>,
     <<"n", "o", "t", " ", "j", "s", "o", "n">>,
     <<"x", " ", "[", "1", ",", "]">>,
     <<"{", "\"", "a", "\"", ":">>}
Replies(kind) ==
    IF kind = "text" THEN {[kind |-> "text", text |-> x] : x \in ReplyTexts}
    ELSE {[kind |-> kind]}

\* the transport call succeeded: a response with status 200 came back
Status200(reply) == reply.kind \in {"text", "deep", "nocontent"}

APIError == [raised |-> TRUE, type |-> "APIError"]

\* lines 112-127, one execution of the body: the parse of line 119 is inside
\* the try, and the handler of lines 125-127 turns every exception into an
\* APIError.  json.loads raises RecursionError, which line 150 does not
\* catch, for the deep text; re.sub of line 139 raises TypeError for None.
GenerateBody(reply) ==
    CASE reply.kind = "text" -> Returned(CleanValue(reply.text))
      [] OTHER -> APIError

----------------------------------------------------------------------------
(* SpecGenerate: one call of generate_json; the transport gives any reply on
   each request *)

GenInit ==
    /\ replies = <<>>
    /\ gresult = None
    /\ gpc = "call"
    /\ CoreIdle /\ RunIdle /\ ValidIdle /\ PipeIdle

\* one attempt of the retry decorator (retry.py lines 18-26): the body runs;
\* an APIError is retried until MaxAttempts attempts were made, then reraised
GenAttempt ==
    /\ gpc = "call"
    /\ \E kind \in ReplyKinds : \E reply \in Replies(kind) :
        /\ replies' = Append(replies, reply)
        /\ IF GenerateBody(reply).raised /\ Len(replies) + 1 < MaxAttempts
           THEN gpc' = "call" /\ gresult' = gresult
           ELSE gpc' = "done" /\ gresult' = GenerateBody(reply)
    /\ UNCHANGED <<coreVars, runVars, validVars, pipeVars>>

GenNext == GenAttempt

SpecGenerate == GenInit /\ [][GenNext]_vars

----------------------------------------------------------------------------
(* Claims about generate_json *)

\* C25: a response of the model is never requested again: when the transport
\* call succeeded (status 200) that request is the last one and the call
\* returns the parsed value or an ErrorEnvelope; only transport and API
\* exceptions repeat the request, and at most 3 requests are made.
C25_ModelResponseNeverRerequested ==
    /\ Len(replies) <= 3
    /\ \A i \in 1..(Len(replies) - 1) : ~Status200(replies[i])
    /\ (gpc = "done" /\ Status200(replies[Len(replies)])) => ~gresult.raised

\* the part of C25 that holds: a text the parser can handle is requested
\* once, and three requests at most are made
C25_ParsableTextRequestedOnce ==
    /\ Len(replies) <= 3
    /\ \A i \in 1..(Len(replies) - 1) : replies[i].kind # "text"
    /\ (gpc = "done" /\ replies[Len(replies)].kind = "text") =>
            /\ ~gresult.raised
            /\ gresult.val = CleanValue(replies[Len(replies)].text)

\* three requests, each answered with status 200 and the deep text
C25_DeepTextRequestedThrice ==
    /\ gpc = "done"
    /\ Len(replies) = 3
    /\ \A i \in 1..3 : replies[i].kind = "deep"
    /\ gresult.raised

----------------------------------------------------------------------------
(* Two invocations of the core transformations, their steps interleaved on the
   same TingwuClient, TranscriptProcessor and QwenClient instances *)

Invocations == {1, 2}

\* a plausible slip: the locals are kept as attributes of the instance, one
\* cell for all invocations
CellOf_OnInstance(i) == 1

\* where invocation i keeps its locals: every call has a frame of its own
\* (content and extracted of lines 139-154 of qwen_client.py, segments and
\* current_texts of lines 250-253 of tingwu_client.py, processed of line 29 of
\* transcript_processor.py are plain local names, none an attribute of self)
CellOf(i) == i

\* the locals of a frame before its method started
Frame0 ==
    [content |-> <<>>, extracted |-> NotFound, st |-> MergeStart, k |-> 0, built |-> <<>>]

\* what a step gives: the next position, the frame's locals, the value
\* returned (None before the return) and the number of lines logged
Stepped(pc, f, out, lines) == [pc |-> pc, f |-> f, out |-> out, lines |-> lines]

\* a parse attempt of _clean_and_parse_json on text: return its value or go on
\* to next, logging lines lines
TryParse(f, text, next, lines) ==
    IF json_loads(text).ok THEN Stepped("done", f, json_loads(text).val, 0)
    ELSE Stepped(next, f, None, lines)

\* qwen_client.py lines 139-179, one stage at a time
CleanStepOf(call, pc, f) ==
    CASE pc = "call" -> Stepped("stage1", [f EXCEPT !.content = StripFences(call.raw)], None, 0)
      [] pc = "stage1" -> TryParse(f, f.content, "extract", 2)
      [] pc = "extract" ->
            Stepped(AfterExtract(_extract_json_substring(f.content)),
                    [f EXCEPT !.extracted = _extract_json_substring(f.content)], None, 0)
      [] pc = "stage2" -> TryParse(f, f.extracted.text, "stage3", 1)
      [] pc = "stage3" -> TryParse(f, Repair(f.extracted.text), "stage4", 0)
      [] pc = "stage4" ->
            IF json_loads(Repair(f.content)).ok
            THEN Stepped("done", f, json_loads(Repair(f.content)).val, 0)
            ELSE Stepped("done", f,
                         [kind |-> "object",
                          val |-> ErrorEnvelope(_truncate(f.content, TruncHead, TruncTail),
                                                json_loads(Repair(f.content)).msg)], 0)

\* qwen_client.py lines 402-416, one statement at a time on the dict result
EnsureStepOf(call, pc, f) ==
    CASE pc = "call" -> Stepped("title", [f EXCEPT !.built = call.result], None, 0)
      [] pc = "title" ->
            Stepped("summary",
                    [f EXCEPT !.built = IF Get(@, "title", <<>>) = <<>>
                                        THEN SetItem(@, "title", TitleOf(call.title)) ELSE @],
                    None, 0)
      [] pc = "summary" ->
            Stepped("defaults",
                    [f EXCEPT !.built = IF Get(@, "summary", <<>>) = <<>>
                                        THEN SetItem(@, "summary", SummaryOf(call.text)) ELSE @],
                    None, 0)
      [] pc = "defaults" ->
            LET r == SetDefault(SetDefault(SetDefault(f.built,
                        "formatted_full_text", call.text), "positions", <<>>), "quotes", <<>>)
            IN  Stepped("done", [f EXCEPT !.built = r], r, 0)

\* the sentences of the payload (tingwu_client.py lines 193-196)
CallSentences(d) == Get(Get(d, "Transcription", d), "Sentences", <<>>)

\* tingwu_client.py lines 189-243: the sentence path one unit of the loop of
\* _merge_sentences_by_speaker at a time, the other paths in one step
ParseStepOf(call, pc, f) ==
    CASE pc = "call" ->
            IF CallSentences(call.data) # <<>>
            THEN Stepped("loop", [f EXCEPT !.st = MergeStart, !.k = 0], None, 1)
            ELSE Stepped("done", f, ParseRun(call.data).result,
                         IF ParseRun(call.data).result.type = "paragraphs" THEN 1
                         ELSE IF ParseRun(call.data).result.type = "raw_lines" THEN 2 ELSE 1)
      [] pc = "loop" ->
            IF f.k < Len(CallSentences(call.data))
            THEN Stepped("loop",
                         [f EXCEPT !.st = MergeStep(@, CallSentences(call.data)[f.k + 1], f.k + 1),
                                   !.k = @ + 1], None, 0)
            ELSE Stepped("flush", f, None, 0)
      [] pc = "flush" ->
            LET segs == MergeFlush(f.st, CallSentences(call.data)).segments
            IN  Stepped("done", [f EXCEPT !.st = MergeFlush(@, CallSentences(call.data))],
                        [type |-> "sentences", segments |-> segs, full_text |-> FullTextOf(segs)],
                        0)

\* transcript_processor.py lines 26-39: the dict display is evaluated one
\* entry at a time, in the order written
ProcessStepOf(call, pc, f) ==
    CASE pc = "call" -> Stepped("text", [f EXCEPT !.built = <<>>], None, 1)
      [] pc = "text" ->
            Stepped("segments",
                    [f EXCEPT !.built = SetItem(@, "text", _extract_full_text(call.raw_result))],
                    None, 0)
      [] pc = "segments" ->
            Stepped("speakers",
                    [f EXCEPT !.built = SetItem(@, "segments", _extract_segments(call.raw_result))],
                    None, 0)
      [] pc = "speakers" ->
            Stepped("chapters",
                    [f EXCEPT !.built = SetItem(@, "speakers",
                                                _extract_speaker_info(call.raw_result))],
                    None, 0)
      [] pc = "chapters" ->
            Stepped("summary",
                    [f EXCEPT !.built = SetItem(@, "chapters", _extract_chapters(call.raw_result))],
                    None, 0)
      [] pc = "summary" ->
            Stepped("metadata",
                    [f EXCEPT !.built = SetItem(@, "summary", _extract_summary(call.raw_result))],
                    None, 0)
      [] pc = "metadata" ->
            LET r == SetItem(f.built, "metadata", _extract_metadata(call.raw_result))
            IN  Stepped("done", [f EXCEPT !.built = r], r, 1)

\* the value the method gives when it is the only invocation
Alone(call) ==
    CASE call.op = "clean" -> CleanValue(call.raw)
      [] call.op = "ensure" -> _ensure_required_fields(call.result, call.title, call.text)
      [] call.op = "parse" -> _parse_json_content(call.data)
      [] call.op = "process" -> process_transcript(call.raw_result)

----------------------------------------------------------------------------
(* SpecInterleave: two invocations, each of any of the four methods on
   arguments of its own, stepping in any order *)

Ops == {"clean", "ensure", "parse", "process"}

InterleaveRaws ==
    {<<"{", "\"", "a", "\"", ":", "1", "}">>,
     <<"x", " ", "[", "1", ",", "]">>,
     <<"[", "2", "]", " ", "y">>,
     <<"n", "o">>}
InterleaveResults ==
    {o \in ModelObjects : DOMAIN o \in {{"tags"}, {"tags", "title", "summary"}}}
MaxInterleaveUnits == 2
InterleaveUnits ==
    {u \in PayloadUnits : u.BeginTime = 0 /\ u.EndTime = 1 /\ (u.Text = <<"A">> \/ u.SpeakerId = "S1")}
InterleaveData ==
    {[Sentences |-> ss] : ss \in SeqUpTo(InterleaveUnits, MaxInterleaveUnits)}
    \cup {[Paragraphs |-> <<[Words |-> <<[Text |-> <<"A", " ">>, Start |-> 0, End |-> 1]>>]>>],
          [Text |-> <<" ">>]}
InterleaveUnit(t, b) == [Text |-> t, BeginTime |-> b, EndTime |-> b + 1, SpeakerId |-> "S1"]
InterleavePayloads ==
    {[Result |-> [Sentences |-> <<InterleaveUnit(<<"A">>, 1), InterleaveUnit(<<"B">>, 0)>>]],
     [Sentences |-> <<InterleaveUnit(<<" ", "C">>, 0)>>, Summary |-> <<"S", " ">>],
     [Text |-> <<" ", "T", "\n", "\n", "U">>]}

CallsOf(op) ==
    CASE op = "clean" -> {[op |-> op, raw |-> x] : x \in InterleaveRaws}
      [] op = "ensure" ->
            {[op |-> op, result |-> r, title |-> t, text |-> <<"x">>] :
                r \in InterleaveResults, t \in {<<>>, <<"V">>}}
      [] op = "parse" -> {[op |-> op, data |-> d] : d \in InterleaveData}
      [] op = "process" -> {[op |-> op, raw_result |-> p] : p \in InterleavePayloads}

InterleaveInit ==
    /\ \E op1 \in Ops, op2 \in Ops : \E c1 \in CallsOf(op1), c2 \in CallsOf(op2) :
            calls = <<c1, c2>>
    /\ frames = [c \in Invocations |-> Frame0]
    /\ rpc = [i \in Invocations |-> "call"]
    /\ outs = [i \in Invocations |-> None]
    /\ loglines = 0
    /\ CoreIdle /\ GenIdle /\ ValidIdle /\ PipeIdle

\* invocation i takes the step n of its method
Take(i, n) ==
    /\ frames' = [frames EXCEPT ![CellOf(i)] = n.f]
    /\ rpc' = [rpc EXCEPT ![i] = n.pc]
    /\ outs' = [outs EXCEPT ![i] = n.out]
    /\ loglines' = loglines + n.lines
    /\ UNCHANGED <<calls, coreVars, genVars, validVars, pipeVars>>

CleanStep(i) ==
    /\ calls[i].op = "clean" /\ rpc[i] # "done"
    /\ Take(i, CleanStepOf(calls[i], rpc[i], frames[CellOf(i)]))
EnsureStep(i) ==
    /\ calls[i].op = "ensure" /\ rpc[i] # "done"
    /\ Take(i, EnsureStepOf(calls[i], rpc[i], frames[CellOf(i)]))
ParseStep(i) ==
    /\ calls[i].op = "parse" /\ rpc[i] # "done"
    /\ Take(i, ParseStepOf(calls[i], rpc[i], frames[CellOf(i)]))
ProcessStep(i) ==
    /\ calls[i].op = "process" /\ rpc[i] # "done"
    /\ Take(i, ProcessStepOf(calls[i], rpc[i], frames[CellOf(i)]))

InterleaveNext ==
    \E i \in Invocations : CleanStep(i) \/ EnsureStep(i) \/ ParseStep(i) \/ ProcessStep(i)

SpecInterleave == InterleaveInit /\ [][InterleaveNext]_vars

----------------------------------------------------------------------------
(* Claim about interleaved invocations *)

\* C26: two invocations of the core transformations on independent inputs,
\* their steps interleaved on the same instances, each return what the method
\* returns when run alone, and a step of one invocation leaves the locals of
\* the other as they were
C26_InterleavedAsAlone ==
    /\ [](\A i \in Invocations : rpc[i] = "done" => outs[i] = Alone(calls[i]))
    /\ [][\A i \in Invocations :
            rpc'[i] = rpc[i] /\ outs'[i] = outs[i]
                => \/ frames'[CellOf(i)] = frames[CellOf(i)]
                   \/ \A j \in Invocations : rpc'[j] = rpc[j]]_vars

\* both invocations returned, each after steps of the other ran between its
\* own, and both kept values in their locals
C26_Witness ==
    /\ \A i \in Invocations : rpc[i] = "done"
    /\ calls[1].op = "clean" /\ calls[2].op = "parse"
    /\ frames[CellOf(1)].extracted # NotFound
    /\ frames[CellOf(2)].k = 2
    /\ calls[1] # calls[2]
    /\ loglines > 0

----------------------------------------------------------------------------
(* ConfigValidator (validator.py).  A text is a sequence of characters; a key
   that is absent and a key whose text is empty are both falsy *)

\* the texts the fields are tried on: those of tests/test_config.py lines 89-104, and
\* malformed ones
TestEndpoint == <<"o", "s", "s", "-", "c", "n", "-", "h", "a", "n", "g", "z", "h", "o", "u", ".", "a", "l", "i", "y", "u", "n", "c", "s", ".", "c", "o", "m">>
TestSecret == <<"a", "b", "c", "d", "e", "f", "g", "h", "i", "j", "k", "l", "m", "n", "o", "p", "q", "r", "s", "t", "u", "v", "w", "x", "y", "z", "1", "2", "3", "4", "5", "6">>
TestAppId == <<"c", "l", "i", "_", "1", "2", "3", "4", "5", "6", "7", "8", "9", "0", "a", "b", "c", "d", "e", "f">>
TestAccessKeyId == <<"L", "T", "A", "I", "1", "2", "3", "4", "5", "6", "7", "8", "9", "0", "1", "2", "3", "4">>
TestBucket == <<"t", "e", "s", "t", "-", "b", "u", "c", "k", "e", "t", "-", "n", "a", "m", "e">>
TestUid == <<"1", "2", "3", "4", "5", "6", "7", "8", "9">>
ShortText == <<"c", "l", "i", "_", "1", "2", "3", "4", "5">>
BadEndpoint == <<"o", "s", "s", "-", "c", "n", ".", "a", "l", "i", "y", "u", "n", "c", "s", ".", "c", "o", "m">>
BadBucket == <<"T", "e", "s", "t">>
BadUid == <<"1", "2", "a", "4", "5">>
OtherModel == <<"g", "p", "t", "-", "4">>
QwenMax == <<"q", "w", "e", "n", "-", "m", "a", "x">>
QwenTurbo == <<"q", "w", "e", "n", "-", "t", "u", "r", "b", "o">>
QwenPlus == <<"q", "w", "e", "n", "-", "p", "l", "u", "s">>

LowerLetters ==
    {"a", "b", "c", "d", "e", "f", "g", "h", "i", "j", "k", "l", "m",
     "n", "o", "p", "q", "r", "s", "t", "u", "v", "w", "x", "y", "z"}
LowerAlnum == LowerLetters \cup Digits

\* what $ lets a pattern ignore: one newline at the end of the text
Chomp(s) == IF s # <<>> /\ s[Len(s)] = "\n" THEN SubSeq(s, 1, Len(s) - 1) ELSE s

\* every character of s from position a to position b is in set, and there is one
Run(s, a, b, set) == a <= b /\ \A k \in a..b : s[k] \in set

OssPrefix == <<"o", "s", "s", "-">>
OssSuffix == <<".", "a", "l", "i", "y", "u", "n", "c", "s", ".", "c", "o", "m">>

MinAppId == 10
MinAppSecret == 20
MinAccessKey == 16
MinApiKey == 20
MinUid == 5
MaxBucketMiddle == 61

\* lines 181-183 and 185-187: isinstance(x, str) and len(x) >= n
_validate_app_id(x) == Len(x) >= MinAppId
_validate_app_secret(x) == Len(x) >= MinAppSecret
\* lines 194-196
_validate_access_key(x) == Len(x) >= MinAccessKey
\* lines 213-215
_validate_api_key(x) == Len(x) >= MinApiKey

\* lines 198-201: ^oss-[a-z]+-[a-z0-9]+\.aliyuncs\.com$
_validate_oss_endpoint(x) ==
    LET s == Chomp(x)
        n == Len(s)
        p == Len(OssPrefix)
        q == Len(OssSuffix)
    IN  /\ n >= p + q + 3
        /\ SubSeq(s, 1, p) = OssPrefix
        /\ SubSeq(s, n - q + 1, n) = OssSuffix
        /\ \E dash \in (p + 2)..(n - q - 1) :
            /\ s[dash] = "-"
            /\ Run(s, p + 1, dash - 1, LowerLetters)
            /\ Run(s, dash + 1, n - q, LowerAlnum)

\* lines 203-206: ^[a-z0-9][a-z0-9\-]{1,61}[a-z0-9]$
_validate_bucket_name(x) ==
    LET s == Chomp(x)
        n == Len(s)
    IN  /\ n >= 3 /\ n <= MaxBucketMiddle + 2
        /\ s[1] \in LowerAlnum /\ s[n] \in LowerAlnum
        /\ Run(s, 2, n - 1, LowerAlnum \cup {"-"})

\* lines 217-220
ValidModels == {QwenTurbo, QwenPlus, QwenMax}
_validate_qwen_model(x) == x \in ValidModels

\* lines 222-224: isinstance(uid, str) and uid.isdigit() and len(uid) >= 5
_validate_bilibili_uid(x) == Run(x, 1, Len(x), Digits) /\ Len(x) >= MinUid

\* lines 226-232: isinstance(n, int) and n > 0
_validate_interval(n) == n > 0

\* the errors of a required field: "... is required" when it is falsy, "... is
\* invalid" when its check fails
Required(section, key, wellformed, missing, invalid) ==
    IF Get(section, key, <<>>) = <<>> THEN <<missing>>
    ELSE IF ~wellformed THEN <<invalid>>
    ELSE <<>>

\* lines 46-66; no webhook is configured
_validate_feishu(c) ==
    Required(c, "app_id", _validate_app_id(Get(c, "app_id", <<>>)),
             "Feishu app_id is required", "Feishu app_id format is invalid")
    \o Required(c, "app_secret", _validate_app_secret(Get(c, "app_secret", <<>>)),
                "Feishu app_secret is required", "Feishu app_secret format is invalid")

\* lines 68-97; no region is configured
_validate_aliyun(c) ==
    Required(c, "access_key_id", _validate_access_key(Get(c, "access_key_id", <<>>)),
             "Aliyun access_key_id is required", "Aliyun access_key_id format is invalid")
    \o Required(c, "access_key_secret", _validate_access_key(Get(c, "access_key_secret", <<>>)),
                "Aliyun access_key_secret is required",
                "Aliyun access_key_secret format is invalid")
    \o Required(c, "oss_endpoint", _validate_oss_endpoint(Get(c, "oss_endpoint", <<>>)),
                "Aliyun oss_endpoint is required", "Aliyun oss_endpoint format is invalid")
    \o Required(c, "oss_bucket", _validate_bucket_name(Get(c, "oss_bucket", <<>>)),
                "Aliyun oss_bucket is required", "Aliyun oss_bucket format is invalid")

\* lines 99-113
_validate_dashscope(c) ==
    Required(c, "api_key", _validate_api_key(Get(c, "api_key", <<>>)),
             "DashScope api_key is required", "DashScope api_key format is invalid")
    \o (IF Get(c, "model", <<>>) # <<>> /\ ~_validate_qwen_model(c.model)
        THEN <<"DashScope model is invalid">> ELSE <<>>)

\* lines 117-127: line 124 calls self._validate_app_key, which the class does
\* not define, so a truthy app_key ends in AttributeError
_validate_tingwu(c) ==
    IF Get(c, "app_key", <<>>) = <<>> THEN Returned(<<"Tingwu app_key is required">>)
    ELSE [raised |-> TRUE, type |-> "AttributeError"]

\* lines 129-148
_validate_monitoring(c) ==
    Required(c, "bilibili_uid", _validate_bilibili_uid(Get(c, "bilibili_uid", <<>>)),
             "Bilibili TestUid is required", "Bilibili TestUid format is invalid")
    \o (IF "check_interval" \in DOMAIN c /\ ~_validate_interval(c.check_interval)
        THEN <<"Check interval must be a positive integer">> ELSE <<>>)

\* lines 150-179: _validate_storage and _validate_logging check optional keys
\* only; none is configured
_validate_storage(c) == <<>>
_validate_logging(c) == <<>>

\* config.get(name, {})
Section(c, name) == Get(c, name, <<>>)

\* lines 26-44: the errors of the sections in order, and the pair returned; an
\* exception of a section validator leaves the function
validate_all(c) ==
    LET tingwu == _validate_tingwu(Section(c, "tingwu"))
        errors == _validate_feishu(Section(c, "feishu"))
                  \o _validate_aliyun(Section(c, "aliyun"))
                  \o _validate_dashscope(Section(c, "dashscope"))
                  \o tingwu.val
                  \o _validate_monitoring(Section(c, "monitoring"))
                  \o _validate_storage(Section(c, "storage"))
                  \o _validate_logging(Section(c, "logging"))
    IN  IF tingwu.raised THEN tingwu
        ELSE Returned([is_valid |-> Len(errors) = 0, errors |-> errors])

----------------------------------------------------------------------------
(* SpecValidate: one call of validate_all on any configuration whose fields
   are absent, empty, malformed or well-formed *)

\* the dict with the keys of keys whose choice is not "absent"
Chosen(keys, value(_)) == [k \in {x \in keys : value(x).present} |-> value(k).val]
Absent == [present |-> FALSE]
Present(v) == [present |-> TRUE, val |-> v]

FieldValues(key) ==
    CASE key = "app_id" -> {Absent, Present(<<>>), Present(ShortText), Present(TestAppId)}
      [] key = "app_secret" -> {Absent, Present(ShortText), Present(TestSecret)}
      [] key = "access_key_id" -> {Absent, Present(TestAccessKeyId)}
      [] key = "access_key_secret" -> {Absent, Present(ShortText), Present(TestSecret)}
      [] key = "oss_endpoint" ->
            {Absent, Present(TestEndpoint), Present(BadEndpoint), Present(TestEndpoint \o <<"\n">>)}
      [] key = "oss_bucket" -> {Absent, Present(TestBucket), Present(BadBucket)}
      [] key = "api_key" -> {Absent, Present(TestSecret)}
      [] key = "model" -> {Absent, Present(QwenMax), Present(OtherModel)}
      [] key = "app_key" -> {Absent, Present(<<>>), Present(ShortText), Present(TestSecret)}
      [] key = "bilibili_uid" -> {Absent, Present(TestUid), Present(BadUid)}
      [] key = "check_interval" -> {Absent, Present(3600), Present(0)}

SectionKeys(name) ==
    CASE name = "feishu" -> {"app_id", "app_secret"}
      [] name = "aliyun" -> {"access_key_id", "access_key_secret", "oss_endpoint", "oss_bucket"}
      [] name = "dashscope" -> {"api_key", "model"}
      [] name = "tingwu" -> {"app_key"}
      [] name = "monitoring" -> {"bilibili_uid", "check_interval"}
SectionNames == {"feishu", "aliyun", "dashscope", "tingwu", "monitoring"}
RequiredFields(name) == SectionKeys(name) \ {"model", "check_interval"}

\* the sections a configuration may hold: each built from a choice per key;
\* a section none of whose keys is present is left out
SectionsOf(name) ==
    CASE name = "feishu" ->
            {Chosen(SectionKeys(name), LAMBDA k : IF k = "app_id" THEN a ELSE b) :
                a \in FieldValues("app_id"), b \in FieldValues("app_secret")}
      [] name = "aliyun" ->
            {Chosen(SectionKeys(name),
                    LAMBDA k : CASE k = "access_key_id" -> a [] k = "access_key_secret" -> b
                                 [] k = "oss_endpoint" -> e [] k = "oss_bucket" -> f) :
                a \in FieldValues("access_key_id"), b \in FieldValues("access_key_secret"),
                e \in FieldValues("oss_endpoint"), f \in FieldValues("oss_bucket")}
      [] name = "dashscope" ->
            {Chosen(SectionKeys(name), LAMBDA k : IF k = "api_key" THEN a ELSE b) :
                a \in FieldValues("api_key"), b \in FieldValues("model")}
      [] name = "tingwu" ->
            {Chosen(SectionKeys(name), LAMBDA k : a) : a \in FieldValues("app_key")}
      [] name = "monitoring" ->
            {Chosen(SectionKeys(name), LAMBDA k : IF k = "bilibili_uid" THEN a ELSE b) :
                a \in FieldValues("bilibili_uid"), b \in FieldValues("check_interval")}

ValidateInit ==
    /\ \E fe \in SectionsOf("feishu"), al \in SectionsOf("aliyun"),
          da \in SectionsOf("dashscope"), ti \in SectionsOf("tingwu"),
          mo \in SectionsOf("monitoring") :
            LET s == [name \in SectionNames |->
                        CASE name = "feishu" -> fe [] name = "aliyun" -> al
                          [] name = "dashscope" -> da [] name = "tingwu" -> ti
                          [] name = "monitoring" -> mo]
            IN  config = [name \in {n \in SectionNames : DOMAIN s[n] # {}} |-> s[name]]
    /\ verdict = None
    /\ vpc = "call"
    /\ CoreIdle /\ GenIdle /\ RunIdle /\ PipeIdle

ValidateCall ==
    /\ vpc = "call"
    /\ verdict' = validate_all(config)
    /\ vpc' = "done"
    /\ UNCHANGED <<config, coreVars, genVars, runVars, pipeVars>>

ValidateNext == ValidateCall

SpecValidate == ValidateInit /\ [][ValidateNext]_vars

----------------------------------------------------------------------------
(* Claim about validate_all *)

\* the required field key of section name is present and well-formed
WellFormed(c, name, key) ==
    /\ name \in DOMAIN c /\ key \in DOMAIN c[name]
    /\ CASE key = "app_id" -> _validate_app_id(c[name][key])
         [] key = "app_secret" -> _validate_app_secret(c[name][key])
         [] key \in {"access_key_id", "access_key_secret"} -> _validate_access_key(c[name][key])
         [] key = "oss_endpoint" -> _validate_oss_endpoint(c[name][key])
         [] key = "oss_bucket" -> _validate_bucket_name(c[name][key])
         [] key = "api_key" -> _validate_api_key(c[name][key])
         [] key = "app_key" -> c[name][key] # <<>>
         [] key = "bilibili_uid" -> _validate_bilibili_uid(c[name][key])
AllRequiredWellFormed(c) ==
    \A name \in SectionNames : \A key \in RequiredFields(name) : WellFormed(c, name, key)
SomeRequiredMissing(c) ==
    \E name \in SectionNames : \E key \in RequiredFields(name) :
        name \notin DOMAIN c \/ key \notin DOMAIN c[name]
OptionalsValid(c) ==
    /\ Get(Section(c, "dashscope"), "model", QwenMax) \in ValidModels
    /\ Get(Section(c, "monitoring"), "check_interval", 1) > 0

\* C27: validate_all returns (True, []) for a configuration whose required
\* fields are all present and well-formed, and (False, a non-empty list) when
\* a required field is missing
C27_ValidateAllVerdict ==
    vpc = "done" =>
        /\ AllRequiredWellFormed(config) /\ OptionalsValid(config)
            => verdict = Returned([is_valid |-> TRUE, errors |-> <<>>])
        /\ SomeRequiredMissing(config)
            => ~verdict.raised /\ ~verdict.val.is_valid /\ verdict.val.errors # <<>>

\* what the call does give: whenever it returns, is_valid is false, the list
\* holds an error and the tingwu app_key is falsy
C27_ReturnsOnlyInvalid ==
    vpc = "done" /\ ~verdict.raised =>
        /\ ~verdict.val.is_valid
        /\ verdict.val.is_valid = (verdict.val.errors = <<>>)
        /\ Get(Section(config, "tingwu"), "app_key", <<>>) = <<>>

\* the call on the configuration of the repository's test raised
C27_ValidConfigRaises ==
    /\ vpc = "done"
    /\ AllRequiredWellFormed(config) /\ OptionalsValid(config)
    /\ verdict.raised

----------------------------------------------------------------------------
(* Claim about the demotion from Full to Compact mode *)

\* the first request was a Full request and generate_json raised
FullRaised == requests # <<>> /\ requests[1] = "full" /\ outcomes[1].kind = "raise"

\* C28: when generate_json raises in Full mode the fallback result is returned
\* at once, with no Compact request; a Compact request follows a Full request
\* only when the Full request returned an ErrorEnvelope
C28_DemotionOnlyAfterEnvelope ==
    /\ FullRaised =>
        /\ apc = "done" /\ requests = <<"full">>
        /\ aresult = _get_fallback_result(video_title, transcript_text)
    /\ Len(requests) = 2 \/ apc = "demoted" => IsEnvelope(outcomes[1])

\* what the code does: the fallback at once after an exception, and a Compact
\* request after a Full request exactly when that returned a mapping with the
\* key error, envelope or not
C28_DemotionAfterErrorKey ==
    /\ FullRaised =>
        /\ apc = "done" /\ requests = <<"full">>
        /\ aresult = _get_fallback_result(video_title, transcript_text)
    /\ requests # <<>> /\ requests[1] = "full" =>
        (Len(requests) = 2 \/ apc = "demoted" <=> IsErrorObject(outcomes[1]))

\* a Compact request was made after the Full request returned a parsed object
\* that holds the key error and is no ErrorEnvelope
C28_DemotedAfterParsedObject ==
    /\ requests = <<"full", "compact">>
    /\ IsErrorObject(outcomes[1]) /\ ~IsEnvelope(outcomes[1])

----------------------------------------------------------------------------
(* ContentIntelligencePipeline._process_video (pipeline.py) and the history of
   BilibiliMonitor (bilibili_monitor.py) *)

StageNames == <<"download", "upload", "transcription", "analysis", "rendering">>

\* a plausible slip: the video is marked once the analysis is done, before
\* the document is rendered
AfterStage_MarkBeforeRendering(stage) ==
    CASE stage = "download" -> "upload"
      [] stage = "upload" -> "transcription"
      [] stage = "transcription" -> "analysis"
      [] stage = "analysis" -> "mark"
      [] stage = "rendering" -> "mark"

\* the statement that follows a stage that succeeded (lines 183-241)
AfterStage(stage) ==
    CASE stage = "download" -> "upload"
      [] stage = "upload" -> "transcription"
      [] stage = "transcription" -> "analysis"
      [] stage = "analysis" -> "rendering"
      [] stage = "rendering" -> "mark"

\* lines 173-179
NewResult == [success |-> FALSE, stages |-> <<>>, stage |-> None, error |-> None]

\* lines 259-265: the first entry of result["stages"] whose success is false,
\* else "unknown"
RECURSIVE FailedStage(_)
FailedStage(stages) ==
    IF stages = <<>> THEN "unknown"
    ELSE IF ~Head(stages).success THEN Head(stages).name
    ELSE FailedStage(Tail(stages))

\* result["stages"][stage] = {"success": True, ...}
Recorded(res, stage) ==
    [res EXCEPT !.stages = Append(@, [name |-> stage, success |-> TRUE])]

\* lines 255-267: the handler, entered from position at
Handled(res) == [res EXCEPT !.error = "error", !.stage = FailedStage(res.stages)]

\* bilibili_monitor.py lines 197-203: the listed videos that are not processed
RECURSIVE NotProcessed(_, _)
NotProcessed(videos, processed_bvids) ==
    IF videos = <<>> THEN <<>>
    ELSE IF Head(videos) \in processed_bvids THEN NotProcessed(Tail(videos), processed_bvids)
    ELSE <<Head(videos)>> \o NotProcessed(Tail(videos), processed_bvids)

Range(seq) == {seq[i] : i \in DOMAIN seq}

----------------------------------------------------------------------------
(* SpecPipeline: checks for new videos, each followed by _process_video on
   every video found; every stage may succeed or fail *)

MaxChecks == 3
MaxListed == 2
Bvids == {"BV1", "BV2", "BV3"}

\* what get_video_list may give: any listing of at most MaxListed different videos
Listings == {l \in SeqUpTo(Bvids, MaxListed) : \A i, j \in DOMAIN l : i # j => l[i] # l[j]}

PipelineInit ==
    /\ history_db = {}
    /\ all_videos = [raised |-> FALSE, videos |-> <<>>]
    /\ new_videos = <<>>
    /\ video_info = None
    /\ presult = NewResult
    /\ spc = "idle"
    /\ failed_at = None
    /\ failed = {}
    /\ found_again = {}
    /\ checks = 0
    /\ CoreIdle /\ GenIdle /\ RunIdle /\ ValidIdle

\* what a stage leaves alone
StageFrame ==
    UNCHANGED <<all_videos, new_videos, video_info, found_again, checks,
                coreVars, genVars, runVars, validVars>>

\* bilibili_monitor.py lines 181-206 under downloader.py lines 47-57: the
\* listing, or NetworkError from get_video_list, which check_new_videos turns
\* into an empty list
GetNewVideos ==
    /\ spc = "idle"
    /\ checks < MaxChecks
    /\ \/ \E listing \in Listings :
            /\ all_videos' = [raised |-> FALSE, videos |-> listing]
            /\ new_videos' = NotProcessed(listing, history_db)
            /\ found_again' = found_again \cup (failed \cap Range(NotProcessed(listing, history_db)))
       \/ /\ all_videos' = [raised |-> TRUE, videos |-> <<>>]
          /\ new_videos' = <<>>
          /\ found_again' = found_again
    /\ checks' = checks + 1
    /\ spc' = "loop"
    /\ UNCHANGED <<history_db, video_info, presult, failed_at, failed,
                   coreVars, genVars, runVars, validVars>>

\* pipeline.py lines 112-114 and 170-179: the next video of the loop
StartVideo ==
    /\ spc = "loop"
    /\ new_videos # <<>>
    /\ video_info' = Head(new_videos)
    /\ new_videos' = Tail(new_videos)
    /\ presult' = NewResult
    /\ failed_at' = None
    /\ spc' = "download"
    /\ UNCHANGED <<history_db, all_videos, failed, found_again, checks,
                   coreVars, genVars, runVars, validVars>>

\* pipeline.py lines 141-152: the loop is over
EndCheck ==
    /\ spc = "loop"
    /\ new_videos = <<>>
    /\ spc' = "idle"
    /\ UNCHANGED <<history_db, all_videos, new_videos, video_info, presult, failed_at, failed,
                   found_again, checks, coreVars, genVars, runVars, validVars>>

\* the stage at position stage: its component gives a value, and the stage is
\* recorded, or it gives None or raises, and the handler of lines 255-267 runs
Stage(stage) ==
    /\ spc = stage
    /\ \E ok \in BOOLEAN :
        IF ok
        THEN /\ presult' = Recorded(presult, stage)
             /\ spc' = AfterStage(stage)
             /\ UNCHANGED <<failed_at, failed>>
        ELSE /\ presult' = Handled(presult)
             /\ spc' = "loop"
             /\ failed_at' = stage
             /\ failed' = failed \cup {video_info}
    /\ UNCHANGED history_db
    /\ StageFrame

\* lines 183-199
Download == Stage("download")
\* lines 201-205
Upload == Stage("upload")
\* lines 207-217
Transcription == Stage("transcription")
\* lines 219-229
Analysis == Stage("analysis")
\* lines 231-238
Rendering == Stage("rendering")

\* lines 240-253: mark_video_processed (bilibili_monitor.py lines 208-228),
\* which may raise from sqlite3, then cleanup_temp_files, which catches its
\* errors, and the success fields
MarkProcessed ==
    /\ spc = "mark"
    /\ \E ok \in BOOLEAN :
        IF ok
        THEN /\ history_db' = history_db \cup {video_info}
             /\ presult' = [presult EXCEPT !.success = TRUE]
             /\ failed' = failed \ {video_info}
             /\ UNCHANGED failed_at
        ELSE /\ history_db' = history_db
             /\ presult' = Handled(presult)
             /\ failed_at' = "mark"
             /\ failed' = failed \cup {video_info}
    /\ spc' = "loop"
    /\ StageFrame

PipelineNext ==
    \/ GetNewVideos \/ StartVideo \/ EndCheck
    \/ Download \/ Upload \/ Transcription \/ Analysis \/ Rendering \/ MarkProcessed

SpecPipeline == PipelineInit /\ [][PipelineNext]_vars

----------------------------------------------------------------------------
(* Claims about _process_video and the history *)

\* the names of the stages recorded in result["stages"], in order
RecordedStages == [i \in DOMAIN presult.stages |-> presult.stages[i].name]

\* the step marks a video / runs the handler / is a get_new_videos call
Marks == history_db' # history_db
Fails == spc \notin {"idle", "loop"} /\ spc' = "loop" /\ ~presult'.success
Checks == checks' # checks

\* a video is marked only when the five stages were recorded in order, a
\* failed processing marks nothing, and a marked video is not returned
MarkedOnlyWhenDone ==
    /\ Marks => /\ RecordedStages = StageNames
                /\ history_db' = history_db \cup {video_info}
    /\ Fails => history_db' = history_db /\ video_info \notin history_db
    /\ Checks => Range(new_videos') \cap history_db = {}

\* C29 as stated: marked only after the five stages succeeded in order; a
\* video whose processing failed is not marked and is returned by the next
\* get_new_videos; a marked video is not returned again
C29_FailedReturnedByNextCheck ==
    [][/\ MarkedOnlyWhenDone
       /\ Checks => failed \subseteq Range(new_videos')]_vars

\* C29: marked only after the five stages succeeded in order; a video whose
\* processing failed is not marked and is returned by every later
\* get_new_videos whose listing holds it; a marked video is not returned again
C29_FailedReturnedWhenListed ==
    [][/\ MarkedOnlyWhenDone
       /\ Checks /\ ~all_videos'.raised =>
            failed \cap Range(all_videos'.videos) \subseteq Range(new_videos')]_vars

\* a video failed, was returned again by a later check, was then marked, and
\* the check after that listed it and did not return it
C29_Witness ==
    \E v \in Bvids :
        /\ v \in found_again /\ v \in history_db
        /\ spc = "loop" /\ ~all_videos.raised
        /\ v \in Range(all_videos.videos) /\ v \notin Range(new_videos)

\* C30: when _process_video fails, success is false and the stage field names
\* the stage that failed
C30_StageNamesFailedStage ==
    failed_at # None /\ spc = "loop" =>
        /\ ~presult.success
        /\ presult.stage = failed_at
        /\ presult.stage \in Range(StageNames)

\* what the code gives: success false and the stage "unknown", whatever failed
C30_StageIsUnknown ==
    failed_at # None /\ spc = "loop" => ~presult.success /\ presult.stage = "unknown"

\* the transcription failed after download and upload were recorded
C30_TranscriptionFailed ==
    /\ failed_at = "transcription" /\ spc = "loop"
    /\ RecordedStages = <<"download", "upload">>
    /\ presult.stage = "unknown"

====
